---- MODULE Spec2Model ----
(***************************************************************************)
(* A model of the resume-tailoring backend: the response extractor, the    *)
(* JSON codec it relies on, the plain-text and markdown renderers, the     *)
(* cover-letter and question-answering steps and the /tailor-resume        *)
(* request handler with the output directory it writes to.                 *)
(*                                                                         *)
(* Text is a sequence of symbols.  A symbol is one character; a word that  *)
(* holds no character the program looks at (no quote, brace, bracket,      *)
(* colon, comma, parenthesis, hyphen, backtick, white space) is carried    *)
(* as one symbol, as if it were a single letter.                           *)
(***************************************************************************)
EXTENDS Integers, Sequences, FiniteSets, TLC

\* ------------------------------------------------------------------ text

\* The backtick (written bt), the double quote (written dq), the backslash
\* (written bs), the line break and the space.
BT == "bt"

BS == "bs"

QT == "dq"

NL == "\n"

SP == " "

\* str.strip() with no argument removes these from both ends.
Whitespace == {SP, NL, "\t"}

Min(S) == CHOOSE x \in S : \A y \in S : x <= y

Max(S) == CHOOSE x \in S : \A y \in S : x >= y

\* The tail of s from position i on (s[i:] with 1-based i).
From(s, i) == SubSeq(s, i, Len(s))

\* The position of the first occurrence of pat in s, 0 when there is none.
Find(s, pat) ==
  LET hits == {i \in 1..(Len(s) - Len(pat) + 1) : SubSeq(s, i, i + Len(pat) - 1) = pat}
  IN IF hits = {} THEN 0 ELSE Min(hits)

\* Python's `pat in s`.
Contains(s, pat) == Find(s, pat) # 0

\* s.split(pat, 1)[0] and s.split(pat, 1)[1]; the latter only when pat occurs.
Before(s, pat) == IF Contains(s, pat) THEN SubSeq(s, 1, Find(s, pat) - 1) ELSE s

After(s, pat) == From(s, Find(s, pat) + Len(pat))

\* str.strip().
LStrip(s) ==
  LET keep == {i \in 1..Len(s) : s[i] \notin Whitespace}
  IN IF keep = {} THEN <<>> ELSE From(s, Min(keep))

RStrip(s) ==
  LET keep == {i \in 1..Len(s) : s[i] \notin Whitespace}
  IN IF keep = {} THEN <<>> ELSE SubSeq(s, 1, Max(keep))

Strip(s) == RStrip(LStrip(s))

\* str.replace(old, new): every non-overlapping occurrence, left to right.
RECURSIVE Replace(_, _, _)
Replace(s, old, new) ==
  IF ~Contains(s, old) THEN s
  ELSE Before(s, old) \o new \o Replace(After(s, old), old, new)

\* sep.join(parts).
RECURSIVE Join(_, _)
Join(parts, sep) ==
  IF parts = <<>> THEN <<>>
  ELSE IF Len(parts) = 1 THEN parts[1]
  ELSE parts[1] \o sep \o Join(Tail(parts), sep)

\* The concatenation of a sequence of sequences.
RECURSIVE Flatten(_)
Flatten(seqs) == IF seqs = <<>> THEN <<>> ELSE Head(seqs) \o Flatten(Tail(seqs))

\* The lines of a text: text.split("\n").
RECURSIVE Lines(_)
Lines(s) ==
  IF ~Contains(s, <<NL>>) THEN <<s>>
  ELSE <<Before(s, <<NL>>)>> \o Lines(After(s, <<NL>>))

\* ------------------------------------------------------------------ JSON values

\* A JSON value: a string (a text), an array (a sequence of values) or an
\* object (a sequence of members in insertion order, keys distinct).
Str(s) == [t |-> "str", v |-> s]

Arr(items) == [t |-> "arr", v |-> items]

Obj(members) == [t |-> "obj", v |-> members]

Member(key, val) == [k |-> key, val |-> val]

IsStr(x) == x.t = "str"

IsArr(x) == x.t = "arr"

IsObj(x) == x.t = "obj"

\* `key in d`.
Has(d, key) == \E i \in 1..Len(d.v) : d.v[i].k = key

\* d[key], for a key that is present.
Get(d, key) == d.v[CHOOSE i \in 1..Len(d.v) : d.v[i].k = key].val

\* d.get(key, default).
GetOr(d, key, default) == IF Has(d, key) THEN Get(d, key) ELSE default

\* d[key] = val: a repeated key keeps its place and takes the later value.
DictSet(members, key, val) ==
  IF \E i \in 1..Len(members) : members[i].k = key
  THEN [i \in 1..Len(members) |->
          IF members[i].k = key THEN Member(key, val) ELSE members[i]]
  ELSE Append(members, Member(key, val))

\* Python truthiness of a value: empty strings, lists and dicts are falsy.
Truthy(x) == x.v # <<>>

\* ------------------------------------------------------------------ json.loads

\* What the decoder skips between tokens.
JsonWhitespace == {SP, NL, "\t", "\r"}

\* Characters a JSON string may not hold unescaped (strict mode).
ControlChars == {NL, "\t", "\r"}

\* The first position at or after i that holds no white space (Len(s) + 1 when
\* there is none).
SkipWs(s, i) ==
  LET stop == {j \in i..Len(s) : s[j] \notin JsonWhitespace}
  IN IF stop = {} THEN Len(s) + 1 ELSE Min(stop)

\* A decoding step's result: the value and the position after it, or a failure
\* (json.JSONDecodeError).
Decoded(val, pos) == [ok |-> TRUE, val |-> val, pos |-> pos]

DecodeError == [ok |-> FALSE, val |-> Str(<<>>), pos |-> 0]

\* What the escape sequence backslash + c stands for (the \\u form is outside
\* the model's alphabet).
Unescaped(c) ==
  CASE c = QT -> QT
    [] c = BS -> BS
    [] c = "/" -> "/"
    [] c = "n" -> NL
    [] c = "t" -> "\t"
    [] c = "r" -> "\r"

\* py_scanstring from position i on, acc being the characters read so far:
\* the literal ends at the first unescaped quote.
RECURSIVE ScanChars(_, _, _)
ScanChars(s, i, acc) ==
  IF i > Len(s) THEN DecodeError
  ELSE IF s[i] = QT THEN Decoded(Str(acc), i + 1)
  ELSE IF s[i] \in ControlChars THEN DecodeError
  ELSE IF s[i] # BS THEN ScanChars(s, i + 1, Append(acc, s[i]))
  ELSE IF i + 1 <= Len(s) /\ s[i + 1] \in {QT, BS, "/", "n", "t", "r"}
  THEN ScanChars(s, i + 2, Append(acc, Unescaped(s[i + 1])))
  ELSE DecodeError

\* A string literal opening at position i (s[i] is the quote).
ScanString(s, i) == ScanChars(s, i + 1, <<>>)

RECURSIVE ScanOnce(_, _), ScanMembers(_, _, _), ScanItems(_, _, _)

\* scan_once: the value that starts exactly at position i. Numbers and the
\* literals true, false and null are outside the model's alphabet.
ScanOnce(s, i) ==
  IF i > Len(s) THEN DecodeError
  ELSE IF s[i] = QT THEN ScanString(s, i)
  ELSE IF s[i] = "{" THEN
    LET j == SkipWs(s, i + 1)
    IN IF j <= Len(s) /\ s[j] = "}" THEN Decoded(Obj(<<>>), j + 1)
       ELSE ScanMembers(s, j, <<>>)
  ELSE IF s[i] = "[" THEN
    LET j == SkipWs(s, i + 1)
    IN IF j <= Len(s) /\ s[j] = "]" THEN Decoded(Arr(<<>>), j + 1)
       ELSE ScanItems(s, j, <<>>)
  ELSE DecodeError

\* JSONObject's loop: position i must hold the quote that opens the next key.
ScanMembers(s, i, acc) ==
  IF i > Len(s) \/ s[i] # QT THEN DecodeError
  ELSE LET key == ScanString(s, i)
       IN IF ~key.ok THEN DecodeError
          ELSE LET c == SkipWs(s, key.pos)
               IN IF c > Len(s) \/ s[c] # ":" THEN DecodeError
                  ELSE LET val == ScanOnce(s, SkipWs(s, c + 1))
                       IN IF ~val.ok THEN DecodeError
                          ELSE LET e == SkipWs(s, val.pos)
                                   acc2 == DictSet(acc, key.val.v, val.val)
                               IN IF e > Len(s) THEN DecodeError
                                  ELSE IF s[e] = "}" THEN Decoded(Obj(acc2), e + 1)
                                  ELSE IF s[e] = "," THEN ScanMembers(s, SkipWs(s, e + 1), acc2)
                                  ELSE DecodeError

\* JSONArray's loop: position i is where the next item starts.
ScanItems(s, i, acc) ==
  LET val == ScanOnce(s, i)
  IN IF ~val.ok THEN DecodeError
     ELSE LET e == SkipWs(s, val.pos)
              acc2 == Append(acc, val.val)
          IN IF e > Len(s) THEN DecodeError
             ELSE IF s[e] = "]" THEN Decoded(Arr(acc2), e + 1)
             ELSE IF s[e] = "," THEN ScanItems(s, SkipWs(s, e + 1), acc2)
             ELSE DecodeError

\* json.loads(s): one value, white space around it, nothing else.
Loads(s) ==
  LET r == ScanOnce(s, SkipWs(s, 1))
  IN IF r.ok /\ SkipWs(s, r.pos) > Len(s) THEN r ELSE DecodeError

\* ------------------------------------------------------------------ json.dumps

Spaces(n) == [i \in 1..n |-> SP]

\* The escape sequence json.dumps writes for a character of a string.
Escaped(c) ==
  CASE c = QT -> <<BS, QT>>
    [] c = BS -> <<BS, BS>>
    [] c = NL -> <<BS, "n">>
    [] c = "\t" -> <<BS, "t">>
    [] c = "\r" -> <<BS, "r">>
    [] OTHER -> <<c>>

\* A string as json.dumps writes it, in quotes.
DumpsStr(s) == <<QT>> \o Flatten([i \in 1..Len(s) |-> Escaped(s[i])]) \o <<QT>>

\* json.dumps(x): separators ", " and ": ".
RECURSIVE Dumps(_)
Dumps(x) ==
  IF IsStr(x) THEN DumpsStr(x.v)
  ELSE IF IsArr(x) THEN
    <<"[">> \o Join([i \in 1..Len(x.v) |-> Dumps(x.v[i])], <<",", SP>>) \o <<"]">>
  ELSE
    <<"{">> \o Join([i \in 1..Len(x.v) |->
                      DumpsStr(x.v[i].k) \o <<":", SP>> \o Dumps(x.v[i].val)],
                    <<",", SP>>) \o <<"}">>

\* json.dumps(x, indent=2) at nesting depth lvl: one item per line, empty
\* containers on one line.
RECURSIVE DumpsIndent(_, _)
DumpsIndent(x, lvl) ==
  LET inner == <<NL>> \o Spaces(2 * (lvl + 1))
      outer == <<NL>> \o Spaces(2 * lvl)
  IN IF IsStr(x) THEN DumpsStr(x.v)
     ELSE IF x.v = <<>> THEN (IF IsArr(x) THEN <<"[", "]">> ELSE <<"{", "}">>)
     ELSE IF IsArr(x) THEN
       <<"[">> \o inner
         \o Join([i \in 1..Len(x.v) |-> DumpsIndent(x.v[i], lvl + 1)], <<",">> \o inner)
         \o outer \o <<"]">>
     ELSE
       <<"{">> \o inner
         \o Join([i \in 1..Len(x.v) |->
                   DumpsStr(x.v[i].k) \o <<":", SP>> \o DumpsIndent(x.v[i].val, lvl + 1)],
                 <<",">> \o inner)
         \o outer \o <<"}">>

\* ------------------------------------------------------------------ extraction

\* The fence marker and the marker tagged json.
Fence == <<BT, BT, BT>>

FenceJson == Fence \o <<"j", "s", "o", "n">>

\* A variant of the choice that tests for the bare fence marker first.
AnalyzeJsonStrBareFirst(text) ==
  IF Contains(text, Fence) /\ Contains(After(text, Fence), Fence)
  THEN Strip(Before(After(text, Fence), Fence))
  ELSE IF Contains(text, FenceJson) /\ Contains(After(text, FenceJson), Fence)
  THEN Strip(Before(After(text, FenceJson), Fence))
  ELSE text

\* analyze_job_description's choice of the text to parse.
AnalyzeJsonStr(text) ==
  IF Contains(text, FenceJson) /\ Contains(After(text, FenceJson), Fence)
  THEN Strip(Before(After(text, FenceJson), Fence))
  ELSE IF Contains(text, Fence) /\ Contains(After(text, Fence), Fence)
  THEN Strip(Before(After(text, Fence), Fence))
  ELSE text

\* A variant of the copy that knows the json-tagged block only.
TailorJsonStrTaggedOnly(text) ==
  IF Contains(text, FenceJson) /\ Contains(After(text, FenceJson), Fence)
  THEN Strip(Before(After(text, FenceJson), Fence))
  ELSE text

\* tailor_resume's choice of the text to parse (its own copy of the code).
TailorJsonStr(text) ==
  IF Contains(text, FenceJson) /\ Contains(After(text, FenceJson), Fence)
  THEN Strip(Before(After(text, FenceJson), Fence))
  ELSE IF Contains(text, Fence) /\ Contains(After(text, Fence), Fence)
  THEN Strip(Before(After(text, Fence), Fence))
  ELSE text

K(word) == <<word>>

\* A variant of the fallback that keeps the text it tried to parse.
AnalysisFallbackParsedText(text) ==
  Obj(<<Member(K("raw_analysis"), Str(AnalyzeJsonStr(text))),
        Member(K("job_title"), Str(<<"Unknown">>)),
        Member(K("required_skills"), Arr(<<>>)),
        Member(K("keywords"), Arr(<<>>))>>)

\* What analyze_job_description returns when parsing fails.
AnalysisFallback(text) ==
  Obj(<<Member(K("raw_analysis"), Str(text)),
        Member(K("job_title"), Str(<<"Unknown">>)),
        Member(K("required_skills"), Arr(<<>>)),
        Member(K("keywords"), Arr(<<>>))>>)

\* analyze_job_description, from the oracle's text on: the parsed value, or
\* the fallback on json.JSONDecodeError.
AnalyzeJobDescription(text) ==
  LET r == Loads(AnalyzeJsonStr(text))
  IN IF r.ok THEN r.val ELSE AnalysisFallback(text)

\* tailor_resume's try block up to json.loads: [ok, val].
TailorLoads(text) == Loads(TailorJsonStr(text))

\* ------------------------------------------------------------------ Python values in text

\* What stands in a list of lines for a raised exception (KeyError,
\* AttributeError, TypeError): it is no string, so the final join fails.
Raise == [t |-> "raise", v |-> <<>>]

EmptyStr == Str(<<>>)

\* repr(x) and str(x) as an f-string interpolates them. Strings print bare
\* under str and in single quotes (written sq) under repr.
RECURSIVE PyRepr(_)
PyRepr(x) ==
  IF IsStr(x) THEN <<"sq">> \o x.v \o <<"sq">>
  ELSE IF IsArr(x) THEN
    <<"[">> \o Join([i \in 1..Len(x.v) |-> PyRepr(x.v[i])], <<",", SP>>) \o <<"]">>
  ELSE
    <<"{">> \o Join([i \in 1..Len(x.v) |->
                      <<"sq">> \o x.v[i].k \o <<"sq", ":", SP>> \o PyRepr(x.v[i].val)],
                    <<",", SP>>) \o <<"}">>

PyStr(x) == IF IsStr(x) THEN x.v ELSE PyRepr(x)

\* `for item in x`: a list gives its items, a dict its keys, a string its
\* characters.
Iter(x) ==
  IF IsArr(x) THEN x.v
  ELSE IF IsObj(x) THEN [i \in 1..Len(x.v) |-> Str(x.v[i].k)]
  ELSE [i \in 1..Len(x.v) |-> Str(<<x.v[i]>>)]

AllStr(items) == \A i \in 1..Len(items) : IsStr(items[i])

\* ", ".join(x) for a list, dict or string x: TypeError unless every item is a
\* string.
CommaJoin(x) ==
  IF AllStr(Iter(x))
  THEN Str(Join([i \in 1..Len(Iter(x)) |-> Iter(x)[i].v], <<",", SP>>))
  ELSE Raise

\* ------------------------------------------------------------------ convert_json_to_text

\* A variant of the entry's lines that heads them with the company alone.
TextExperienceCompanyOnly(exp) ==
  IF ~IsObj(exp) THEN <<Raise>>
  ELSE <<Str(PyStr(GetOr(exp, K("company"), EmptyStr)))>>
       \o (IF Has(exp, K("period")) THEN <<Get(exp, K("period"))>> ELSE <<>>)
       \o <<EmptyStr>>

\* A variant of the entry that puts the summary before the period.
TextExperienceSummaryFirst(exp) ==
  IF ~IsObj(exp) THEN <<Raise>>
  ELSE
    <<Str(PyStr(GetOr(exp, K("title"), EmptyStr)) \o <<SP, "at", SP>>
            \o PyStr(GetOr(exp, K("company"), EmptyStr)))>>
    \o (IF Has(exp, K("summary")) THEN <<Get(exp, K("summary"))>> ELSE <<>>)
    \o (IF Has(exp, K("period")) THEN <<Get(exp, K("period"))>> ELSE <<>>)
    \o (IF Has(exp, K("skills")) /\ Truthy(Get(exp, K("skills")))
        THEN <<Str(<<"Skills", ":", SP>> \o PyStr(Get(exp, K("skills"))))>>
        ELSE <<>>)
    \o <<EmptyStr>>

\* The lines one experience entry appends to text_content.
TextExperience(exp) ==
  IF ~IsObj(exp) THEN <<Raise>>
  ELSE
    <<Str(PyStr(GetOr(exp, K("title"), EmptyStr)) \o <<SP, "at", SP>>
            \o PyStr(GetOr(exp, K("company"), EmptyStr)))>>
    \o (IF Has(exp, K("period")) THEN <<Get(exp, K("period"))>> ELSE <<>>)
    \o (IF Has(exp, K("skills")) /\ Truthy(Get(exp, K("skills")))
        THEN IF IsArr(Get(exp, K("skills")))
             THEN LET joined == CommaJoin(Get(exp, K("skills")))
                  IN IF IsStr(joined)
                     THEN <<Str(<<"Skills", ":", SP>> \o joined.v)>>
                     ELSE <<Raise>>
             ELSE <<Str(<<"Skills", ":", SP>> \o PyStr(Get(exp, K("skills"))))>>
        ELSE <<>>)
    \o (IF Has(exp, K("summary")) THEN <<Get(exp, K("summary"))>> ELSE <<>>)
    \o (IF Has(exp, K("highlights")) /\ Truthy(Get(exp, K("highlights")))
        THEN LET hs == Iter(Get(exp, K("highlights")))
             IN [i \in 1..Len(hs) |-> Str(<<"bullet", SP>> \o PyStr(hs[i]))]
        ELSE <<>>)
    \o <<EmptyStr>>

\* The line of one skills category, or of one mapping entry in general.
TextCategory(category, skill_list) ==
  IF IsArr(skill_list)
  THEN LET joined == CommaJoin(skill_list)
       IN IF IsStr(joined) THEN Str(category \o <<":", SP>> \o joined.v) ELSE Raise
  ELSE Str(category \o <<":", SP>> \o PyStr(skill_list))

\* The lines of the SKILLS section below its heading.
TextSkills(skills) ==
  IF IsObj(skills)
  THEN [i \in 1..Len(skills.v) |-> TextCategory(skills.v[i].k, skills.v[i].val)]
  ELSE IF IsArr(skills) THEN <<CommaJoin(skills)>>
  ELSE <<skills>>

\* The lines of one education record.
TextEducationRecord(edu) ==
  <<Str(PyStr(GetOr(edu, K("degree"), EmptyStr)) \o <<SP, "-", SP>>
          \o PyStr(GetOr(edu, K("university"), EmptyStr)))>>
  \o (IF Has(edu, K("period")) THEN <<Get(edu, K("period"))>> ELSE <<>>)
  \o (IF Has(edu, K("description")) THEN <<Get(edu, K("description"))>> ELSE <<>>)

\* The lines of the EDUCATION section below its heading.
TextEducation(education) ==
  IF IsObj(education) THEN TextEducationRecord(education)
  ELSE IF IsArr(education)
  THEN Flatten([i \in 1..Len(education.v) |->
                  IF IsObj(education.v[i]) THEN TextEducationRecord(education.v[i])
                  ELSE <<education.v[i]>>])
  ELSE <<education>>

\* The PROFESSIONAL REFERENCES block, present only for non-empty references.
TextReferences(r) ==
  IF Has(r, K("references")) /\ Truthy(Get(r, K("references")))
  THEN LET refs == Iter(Get(r, K("references")))
       IN <<Str(<<"PROFESSIONAL", SP, "REFERENCES">>)>>
          \o [i \in 1..Len(refs) |->
                IF IsObj(refs[i])
                THEN Str(PyStr(GetOr(refs[i], K("name"), EmptyStr))
                           \o <<SP, "-", SP, "Link", ":", SP>>
                           \o PyStr(GetOr(refs[i], K("link"), EmptyStr)))
                ELSE Raise]
          \o <<EmptyStr>>
  ELSE <<>>

RequiredKeys == {K("name"), K("contact"), K("summary"), K("experience"),
                 K("skills"), K("education")}

\* text_content as convert_json_to_text builds it: a sequence of values, one
\* per appended line. A raised exception shows as Raise.
TextContent(r) ==
  IF ~IsObj(r) \/ \E key \in RequiredKeys : ~Has(r, key) THEN <<Raise>>
  ELSE IF ~IsObj(Get(r, K("contact"))) THEN <<Raise>>
  ELSE
    <<Get(r, K("name"))>>
    \o [i \in 1..Len(Get(r, K("contact")).v) |->
          Str(Get(r, K("contact")).v[i].k \o <<":", SP>>
                \o PyStr(Get(r, K("contact")).v[i].val))]
    \o <<Str(<<"-", "-", "-", "-">>), Str(<<"SUMMARY">>), Get(r, K("summary")), EmptyStr>>
    \o TextReferences(r)
    \o <<Str(<<"EXPERIENCE">>)>>
    \o Flatten([i \in 1..Len(Iter(Get(r, K("experience")))) |->
                  TextExperience(Iter(Get(r, K("experience")))[i])])
    \o <<Str(<<"SKILLS">>)>>
    \o TextSkills(Get(r, K("skills")))
    \o <<EmptyStr, Str(<<"EDUCATION">>)>>
    \o TextEducation(Get(r, K("education")))

\* convert_json_to_text's full_text: [ok, text]; not ok when the function
\* raises (a missing key, a value of the wrong type, a line that is no string).
ConvertJsonToText(r) ==
  LET content == TextContent(r)
  IN IF AllStr(content)
     THEN [ok |-> TRUE, text |-> Join([i \in 1..Len(content) |-> content[i].v], <<NL>>)]
     ELSE [ok |-> FALSE, text |-> <<>>]

\* ------------------------------------------------------------------ fragment templates

\* A placeholder token, {{name}}.
PH(name) == <<"{", "{", name, "}", "}">>

\* The files convert_json_to_markdown reads: the document template and the
\* fragments of the output_template directory, in the order it opens them.
FirstFragments == <<"output_template.md", "top_section.md", "summary_section.md",
                    "references_section.md", "reference_item.md",
                    "experiences_section.md", "experience_item.md",
                    "experience_highlights.md", "experience_highlight_item.md",
                    "skills_section.md", "skill_section_item.md",
                    "education_section.md">>

LocationFragment == "location_section.md"

FragmentNames == {FirstFragments[i] : i \in 1..Len(FirstFragments)} \cup {LocationFragment}

\* The fragments' contents: each holds, once, every placeholder the renderer
\* substitutes in it.
FragmentText(file) ==
  CASE file = "output_template.md" ->
         PH("top_section") \o <<NL>> \o PH("summary_section") \o <<NL>>
           \o PH("references_section") \o <<NL>> \o PH("experiences_section") \o <<NL>>
           \o PH("skills_section") \o <<NL>> \o PH("education_section")
    [] file = "top_section.md" ->
         <<"#", SP>> \o PH("name") \o <<NL>> \o PH("location_section") \o PH("contacts") \o <<NL>>
    [] file = "location_section.md" -> <<"<p>">> \o PH("location") \o <<"</p>", NL>>
    [] file = "summary_section.md" -> <<"##", SP, "Summary", NL>> \o PH("summary") \o <<NL>>
    [] file = "references_section.md" -> <<"##", SP, "References", NL>> \o PH("references")
    [] file = "reference_item.md" ->
         <<"<a", SP, "href=">> \o PH("link") \o <<">">> \o PH("name") \o <<"</a>", SP>>
           \o PH("text") \o <<NL>>
    [] file = "experiences_section.md" -> <<"##", SP, "Experience", NL>> \o PH("experiences")
    [] file = "experience_item.md" ->
         <<"###", SP>> \o PH("position") \o <<SP, "|", SP>> \o PH("company_name")
           \o <<SP, "|", SP>> \o PH("location") \o <<NL>>
           \o PH("from") \o <<SP, "to", SP>> \o PH("to") \o <<NL>>
           \o PH("description") \o <<NL>> \o PH("skills") \o <<NL>> \o PH("highlights")
    [] file = "experience_highlights.md" -> <<"<ul>">> \o PH("highlights") \o <<"</ul>", NL>>
    [] file = "experience_highlight_item.md" -> <<"<li>">> \o PH("highlight") \o <<"</li>">>
    [] file = "skills_section.md" -> <<"##", SP, "Skills", NL>> \o PH("skills")
    [] file = "skill_section_item.md" -> PH("category") \o <<":", SP>> \o PH("skills")
    [] file = "education_section.md" ->
         <<"##", SP, "Education", NL>> \o PH("degree") \o <<SP, "|", SP>> \o PH("university")
           \o <<NL>> \o PH("period") \o <<NL>> \o PH("description") \o <<NL>>

\* Every placeholder token of the fragment templates.
PlaceholderNames == {"top_section", "summary_section", "references_section",
                     "experiences_section", "skills_section", "education_section",
                     "name", "location_section", "contacts", "location", "summary",
                     "references", "link", "text", "experiences", "position",
                     "company_name", "from", "to", "description", "skills",
                     "highlights", "highlight", "category", "degree", "university",
                     "period"}

\* ------------------------------------------------------------------ convert_json_to_markdown

\* template.replace("{{name}}", x) on values: a TypeError when x is no
\* string, and an earlier exception carries through.
Sub(t, name, x) ==
  IF IsStr(t) /\ IsStr(x) THEN Str(Replace(t.v, PH(name), x.v)) ELSE Raise

\* A chain of replace calls on one template, in the order the code makes
\* them: subs is a sequence of <<placeholder name, value>>.
RECURSIVE SubAll(_, _)
SubAll(t, subs) ==
  IF subs = <<>> THEN t
  ELSE SubAll(Sub(t, Head(subs)[1], Head(subs)[2]), Tail(subs))

\* The concatenation of string values; an exception among them carries through.
ConcatV(items) ==
  IF AllStr(items) THEN Str(Flatten([i \in 1..Len(items) |-> items[i].v])) ELSE Raise

Tmpl(file) == Str(FragmentText(file))

\* The company string of an experience entry split into company and location.
CompanySplit(company) ==
  IF Contains(company, <<"(">>) /\ Contains(company, <<")">>)
  THEN [company |-> Strip(Before(company, <<"(">>)),
        location |-> Strip(Replace(After(company, <<"(">>), <<")">>, <<>>))]
  ELSE [company |-> company, location |-> <<>>]

\* The position of the last occurrence of pat in s, 0 when there is none.
FindLast(s, pat) ==
  Max({0} \cup {i \in 1..(Len(s) - Len(pat) + 1) : SubSeq(s, i, i + Len(pat) - 1) = pat})

\* A variant of the period split that cuts at the last hyphen.
PeriodSplitLast(period) ==
  IF Contains(period, <<"-">>)
  THEN [from |-> Strip(SubSeq(period, 1, FindLast(period, <<"-">>) - 1)),
        to |-> Strip(From(period, FindLast(period, <<"-">>) + 1))]
  ELSE [from |-> period, to |-> <<>>]

\* The period string of an experience entry split into from and to.
PeriodSplit(period) ==
  IF Contains(period, <<"-">>)
  THEN [from |-> Strip(Before(period, <<"-">>)), to |-> Strip(After(period, <<"-">>))]
  ELSE [from |-> period, to |-> <<>>]

\* skills_text of an experience entry.
MdEntrySkills(exp) ==
  IF Has(exp, K("skills")) /\ Truthy(Get(exp, K("skills")))
  THEN IF IsArr(Get(exp, K("skills"))) THEN CommaJoin(Get(exp, K("skills")))
       ELSE Str(PyStr(Get(exp, K("skills"))))
  ELSE EmptyStr

\* any(h.strip() for h in items): "yes", "no", or "raise" when an item that is
\* reached has no strip method.
RECURSIVE AnyStrip(_)
AnyStrip(items) ==
  IF items = <<>> THEN "no"
  ELSE IF ~IsStr(Head(items)) THEN "raise"
  ELSE IF Strip(Head(items).v) # <<>> THEN "yes"
  ELSE AnyStrip(Tail(items))

\* One highlight of the loop: skipped when falsy or blank.
MdHighlightItem(h) ==
  IF ~Truthy(h) THEN EmptyStr
  ELSE IF ~IsStr(h) THEN Raise
  ELSE IF Strip(h.v) = <<>> THEN EmptyStr
  ELSE Sub(Tmpl("experience_highlight_item.md"), "highlight", h)

\* highlights_html of an experience entry.
MdHighlights(exp) ==
  LET highlights == GetOr(exp, K("highlights"), Arr(<<>>))
      items == Iter(highlights)
  IN IF ~Truthy(highlights) \/ AnyStrip(items) = "no" THEN EmptyStr
     ELSE IF AnyStrip(items) = "raise" THEN Raise
     ELSE Sub(Tmpl("experience_highlights.md"), "highlights",
              ConcatV([i \in 1..Len(items) |-> MdHighlightItem(items[i])]))

\* experience_item followed by its line break, for one entry.
MdExperience(exp) ==
  IF ~IsObj(exp) THEN Raise
  ELSE IF ~IsStr(GetOr(exp, K("company"), EmptyStr)) \/ ~IsStr(GetOr(exp, K("period"), EmptyStr))
  THEN Raise
  ELSE ConcatV(<<
    SubAll(Tmpl("experience_item.md"),
      <<<<"position", GetOr(exp, K("title"), EmptyStr)>>,
        <<"company_name", Str(CompanySplit(GetOr(exp, K("company"), EmptyStr).v).company)>>,
        <<"location", Str(CompanySplit(GetOr(exp, K("company"), EmptyStr).v).location)>>,
        <<"from", Str(PeriodSplit(GetOr(exp, K("period"), EmptyStr).v).from)>>,
        <<"to", Str(PeriodSplit(GetOr(exp, K("period"), EmptyStr).v).to)>>,
        <<"description", GetOr(exp, K("summary"), EmptyStr)>>,
        <<"skills", MdEntrySkills(exp)>>,
        <<"highlights", MdHighlights(exp)>> >>),
    Str(<<NL>>)>>)

\* skill_item followed by its line break, for one category.
MdSkillItem(category, skill_list) ==
  ConcatV(<<
    SubAll(Tmpl("skill_section_item.md"),
      <<<<"category", Str(category)>>,
        <<"skills", IF IsArr(skill_list) THEN CommaJoin(skill_list)
                    ELSE Str(PyStr(skill_list))>> >>),
    Str(<<NL>>)>>)

\* skills_html: filled only when skills is a mapping.
MdSkillsHtml(skills) ==
  IF IsObj(skills)
  THEN ConcatV([i \in 1..Len(skills.v) |-> MdSkillItem(skills.v[i].k, skills.v[i].val)])
  ELSE EmptyStr

DefaultDegree == <<"Bachelor", SP, "of", SP, "Information", SP, "Technology">>

DefaultUniversity == <<"James", SP, "Cook", SP, "University", ",", SP, "Singapore">>

DefaultPeriod == <<"Jan", SP, "2009", SP, "-", SP, "Dec", SP, "2011">>

DefaultDescription ==
  <<"Major", SP, "concentration", SP, "in", SP, "Software", SP, "Development", ",", SP,
    "Algorithm", SP, "Design", ",", SP, "and", SP, "Database", SP, "Management", SP,
    "Systems", SP, "with", SP, "distinction", ".">>

\* education_section: substituted only when education is a single record.
MdEducation(education) ==
  IF IsObj(education)
  THEN SubAll(Tmpl("education_section.md"),
         <<<<"degree", GetOr(education, K("degree"), Str(DefaultDegree))>>,
           <<"university", GetOr(education, K("university"), Str(DefaultUniversity))>>,
           <<"period", GetOr(education, K("period"), Str(DefaultPeriod))>>,
           <<"description", GetOr(education, K("description"), Str(DefaultDescription))>> >>)
  ELSE Tmpl("education_section.md")

\* One reference item.
MdReference(ref) ==
  IF ~IsObj(ref) THEN Raise
  ELSE SubAll(Tmpl("reference_item.md"),
         <<<<"name", GetOr(ref, K("name"), EmptyStr)>>,
           <<"text", GetOr(ref, K("text"), EmptyStr)>>,
           <<"link", GetOr(ref, K("link"), Str(<<"#">>))>> >>)

\* references_section: empty unless references exist and are non-empty.
MdReferences(r) ==
  IF Has(r, K("references")) /\ Truthy(Get(r, K("references")))
  THEN LET refs == Iter(Get(r, K("references")))
       IN Sub(Tmpl("references_section.md"), "references",
              ConcatV([i \in 1..Len(refs) |-> MdReference(refs[i])]))
  ELSE EmptyStr

\* One contact link; the style attribute is a fixed literal (one symbol).
ContactLink(key, value) ==
  <<"<a", SP, "href=", QT>> \o PyStr(value) \o <<QT, SP, "style", ">">> \o key \o <<"</a>">>

\* contacts_html: the links of every contact entry but location.
ContactsHtml(contact) ==
  LET links == SelectSeq(contact.v, LAMBDA m : m.k # K("location"))
  IN Join([i \in 1..Len(links) |-> ContactLink(links[i].k, links[i].val)], <<SP, "|", SP>>)

\* location_section: filled only for a non-empty location.
MdLocation(contact) ==
  IF Has(contact, K("location")) /\ Truthy(Get(contact, K("location")))
  THEN Sub(Tmpl("location_section.md"), "location", Get(contact, K("location")))
  ELSE EmptyStr

\* top_section.
MdTop(r) ==
  SubAll(Tmpl("top_section.md"),
    <<<<"name", Get(r, K("name"))>>,
      <<"location_section", MdLocation(Get(r, K("contact")))>>,
      <<"contacts", Str(ContactsHtml(Get(r, K("contact"))))>> >>)

\* template_content after the section substitutions, for a record that has
\* the keys the function indexes; Raise when a later step raises.
MdDocument(r) ==
  SubAll(Tmpl("output_template.md"),
    <<<<"top_section", MdTop(r)>>,
      <<"summary_section",
        Sub(Tmpl("summary_section.md"), "summary", Get(r, K("summary")))>>,
      <<"references_section", MdReferences(r)>>,
      <<"experiences_section",
        Sub(Tmpl("experiences_section.md"), "experiences",
            ConcatV([i \in 1..Len(Iter(Get(r, K("experience")))) |->
                       MdExperience(Iter(Get(r, K("experience")))[i])]))>>,
      <<"skills_section",
        Sub(Tmpl("skills_section.md"), "skills", MdSkillsHtml(Get(r, K("skills"))))>>,
      <<"education_section", MdEducation(Get(r, K("education")))>> >>)

MdFail(notfound) == [ok |-> FALSE, notfound |-> notfound, text |-> <<>>]

\* The outcome for the document the substitutions produced.
MdResult(doc) ==
  IF IsStr(doc) THEN [ok |-> TRUE, notfound |-> FALSE, text |-> doc.v] ELSE MdFail(FALSE)

\* A variant of convert_json_to_markdown that opens the location fragment only
\* for a contact that has a location.
ConvertJsonToMarkdownLazyLocation(r, present) ==
  IF IsStr(r) THEN MdFail(TRUE)
  ELSE IF \E i \in 1..Len(FirstFragments) : FirstFragments[i] \notin present THEN MdFail(TRUE)
  ELSE IF ~IsObj(r) \/ ~Has(r, K("contact")) \/ ~Has(r, K("name")) THEN MdFail(FALSE)
  ELSE IF ~IsObj(Get(r, K("contact"))) \/ ~IsStr(Get(r, K("name"))) THEN MdFail(FALSE)
  ELSE IF LocationFragment \notin present /\ Has(Get(r, K("contact")), K("location"))
  THEN MdFail(TRUE)
  ELSE IF \E key \in RequiredKeys : ~Has(r, key) THEN MdFail(FALSE)
  ELSE MdResult(MdDocument(r))

\* convert_json_to_markdown with the fragment files `present`: the markdown,
\* or the failure and whether it is a FileNotFoundError. The function opens
\* the document template and eleven fragments first, the location fragment
\* after it has read name and contact.
ConvertJsonToMarkdown(r, present) ==
  IF IsStr(r) THEN MdFail(TRUE)
  ELSE IF \E i \in 1..Len(FirstFragments) : FirstFragments[i] \notin present THEN MdFail(TRUE)
  ELSE IF ~IsObj(r) \/ ~Has(r, K("contact")) \/ ~Has(r, K("name")) THEN MdFail(FALSE)
  ELSE IF ~IsObj(Get(r, K("contact"))) \/ ~IsStr(Get(r, K("name"))) THEN MdFail(FALSE)
  ELSE IF LocationFragment \notin present THEN MdFail(TRUE)
  ELSE IF \E key \in RequiredKeys : ~Has(r, key) THEN MdFail(FALSE)
  ELSE MdResult(MdDocument(r))

\* ------------------------------------------------------------------ generate_question_answers

\* W(<<a, b>>) is the text "a b".
W(words) == Join([i \in 1..Len(words) |-> <<words[i]>>], <<SP>>)

\* skills_text as the prompts show it: one line per category of a mapping,
\* a comma-joined list, or str(skills); Raise when a join meets a non-string.
SkillsText(resume) ==
  IF ~Has(resume, K("skills")) THEN EmptyStr
  ELSE IF IsObj(Get(resume, K("skills")))
  THEN ConcatV([i \in 1..Len(Get(resume, K("skills")).v) |->
                  ConcatV(<<Str(IF i = 1 THEN <<>> ELSE <<NL>>),
                            TextCategory(Get(resume, K("skills")).v[i].k,
                                         Get(resume, K("skills")).v[i].val)>>)])
  ELSE IF IsArr(Get(resume, K("skills"))) THEN CommaJoin(Get(resume, K("skills")))
  ELSE Str(PyStr(Get(resume, K("skills"))))

\* exp_info of one entry joined into one text; Raise when the entry has no
\* get method.
ExpInfo(exp) ==
  IF ~IsObj(exp) THEN Raise
  ELSE Str(Join(
    <<W(<<"Position:">>) \o <<SP>> \o PyStr(GetOr(exp, K("title"), EmptyStr)),
      W(<<"Company:">>) \o <<SP>> \o PyStr(GetOr(exp, K("company"), EmptyStr)),
      W(<<"Period:">>) \o <<SP>> \o PyStr(GetOr(exp, K("period"), EmptyStr))>>
    \o (IF Has(exp, K("summary"))
        THEN <<W(<<"Summary:">>) \o <<SP>> \o PyStr(Get(exp, K("summary")))>> ELSE <<>>)
    \o (IF Has(exp, K("highlights")) /\ Truthy(Get(exp, K("highlights")))
        THEN <<W(<<"Highlights:">>)>>
             \o [i \in 1..Len(Iter(Get(exp, K("highlights")))) |->
                   <<"-", SP>> \o PyStr(Iter(Get(exp, K("highlights")))[i])]
        ELSE <<>>),
    <<NL>>))

\* experience_text: one text per entry.
ExperienceText(resume) ==
  IF ~Has(resume, K("experience")) THEN Arr(<<>>)
  ELSE IF AllStr([i \in 1..Len(Iter(Get(resume, K("experience")))) |->
                    ExpInfo(Iter(Get(resume, K("experience")))[i])])
  THEN Arr([i \in 1..Len(Iter(Get(resume, K("experience")))) |->
              ExpInfo(Iter(Get(resume, K("experience")))[i])])
  ELSE Raise

\* What generate_question_answers gathers from the resume before its loop
\* (a resume that is no mapping has no get method): the texts the prompts
\* interpolate, or Raise.
QaContext(resume) ==
  IF ~IsObj(resume) THEN Raise
  ELSE IF ~IsStr(SkillsText(resume)) \/ ~IsArr(ExperienceText(resume)) THEN Raise
  ELSE Obj(<<Member(K("name"), Str(PyStr(GetOr(resume, K("name"), EmptyStr)))),
             Member(K("summary"), Str(PyStr(GetOr(resume, K("summary"), EmptyStr)))),
             Member(K("skills_text"), SkillsText(resume)),
             Member(K("experience_text"), ExperienceText(resume))>>)

\* question_prompt; the fixed instructions are carried as single symbols.
QuestionPrompt(ctx, job_description, question) ==
  <<"question_intro", NL, "RESUME INFORMATION:", NL, "Name:", SP>> \o Get(ctx, K("name")).v
    \o <<NL, "Professional Summary:", SP>> \o Get(ctx, K("summary")).v
    \o <<NL, "Skills:", SP>> \o Get(ctx, K("skills_text")).v
    \o <<NL, "Experience:", NL>> \o DumpsIndent(Get(ctx, K("experience_text")), 0)
    \o <<NL, "JOB DESCRIPTION:", NL>> \o job_description
    \o <<NL, "APPLICATION QUESTION:", NL>> \o question
    \o <<NL, "answer_instructions">>

\* The answer the loop stores for a response: response.text.strip().
Answer(response) == Strip(response)

\* A variant of the loop's bookkeeping that puts the new answer first.
PushAnswerFirst(answers, answer) == <<answer>> \o answers

\* answers.append(...).
PushAnswer(answers, answer) == Append(answers, answer)

\* ------------------------------------------------------------------ tailor_resume

\* The tailoring prompt: the job description and the template resume dumped
\* with indent 2, between fixed instructions.
TailoringPrompt(job_description, resume_structure) ==
  <<"tailoring_intro", NL, "JOB DESCRIPTION:", NL>> \o job_description
    \o <<NL, "MY CURRENT RESUME (in JSON format):", NL>> \o DumpsIndent(resume_structure, 0)
    \o <<NL, "tailoring_instructions">>

\* A variant of tailor_resume's result that hands back the template resume.
TailorResultTemplate(resume_structure, text) ==
  [ok |-> TailorLoads(text).ok, resume |-> resume_structure]

\* A variant of tailor_resume's result that recovers from a failed parse with
\* a record holding the raw text.
TailorResultLenient(resume_structure, text) ==
  [ok |-> TRUE,
   resume |-> IF TailorLoads(text).ok THEN TailorLoads(text).val
              ELSE Obj(<<Member(K("raw"), Str(text))>>)]

\* tailor_resume's result for the oracle's text: the parsed value, returned
\* as it is, or the failure of json.loads.
TailorResult(resume_structure, text) ==
  [ok |-> TailorLoads(text).ok, resume |-> TailorLoads(text).val]

\* datetime.now().strftime("%Y%m%d_%H%M%S") in the second `now`.
Stamp(now) == <<"2", "0261104_16000", ToString(now)>>

OutputDir == <<"output", "/">>

JsonPath(timestamp) == OutputDir \o <<"tailored_resume_">> \o timestamp \o <<".json">>

\* A variant of the raw file's path that is the JSON file's.
RawPathAsJson(timestamp) == JsonPath(timestamp)

RawPath(timestamp) == OutputDir \o <<"tailored_resume_raw_">> \o timestamp \o <<".txt">>

TextPath(timestamp) == OutputDir \o <<"tailored_resume_text_">> \o timestamp \o <<".txt">>

MarkdownPath(timestamp) == OutputDir \o <<"tailored_resume_markdown_">> \o timestamp \o <<".md">>

\* ------------------------------------------------------------------ generate_pdf_from_json

\* What MarkdownPdf saves for a markdown text.
Pdf(markdown) == <<"%PDF">> \o markdown

\* str(output_path).replace('.pdf', '.md').
MarkdownBeside(pdf_path) == Replace(pdf_path, <<".pdf">>, <<".md">>)

\* ------------------------------------------------------------------ generate_cover_letter

\* experience_highlights: the highlights and the summary of every entry.
ExperienceHighlights(resume) ==
  IF ~Has(resume, K("experience")) THEN Arr(<<>>)
  ELSE IF \E i \in 1..Len(Iter(Get(resume, K("experience")))) :
            ~IsObj(Iter(Get(resume, K("experience")))[i])
  THEN Raise
  ELSE Arr(Flatten([i \in 1..Len(Get(resume, K("experience")).v) |->
         (IF Has(Get(resume, K("experience")).v[i], K("highlights"))
             /\ Truthy(Get(Get(resume, K("experience")).v[i], K("highlights")))
          THEN Iter(Get(Get(resume, K("experience")).v[i], K("highlights")))
          ELSE <<>>)
         \o (IF Has(Get(resume, K("experience")).v[i], K("summary"))
             THEN <<Get(Get(resume, K("experience")).v[i], K("summary"))>>
             ELSE <<>>)]))

\* cover_letter_prompt, or Raise when gathering its parts raises.
CoverLetterPrompt(resume, job_description) ==
  IF ~IsObj(resume) \/ ~IsStr(SkillsText(resume)) \/ ~IsArr(ExperienceHighlights(resume))
  THEN Raise
  ELSE Str(<<"cover_intro", NL, "CANDIDATE INFORMATION:", NL, "Name:", SP>>
             \o PyStr(GetOr(resume, K("name"), EmptyStr))
             \o <<NL, "Contact:", SP>> \o Dumps(GetOr(resume, K("contact"), Obj(<<>>)))
             \o <<NL, "Professional Summary:", SP>>
             \o PyStr(GetOr(resume, K("summary"), EmptyStr))
             \o <<NL, "Key Skills:", SP>> \o SkillsText(resume).v
             \o <<NL, "Experience Highlights:", NL>>
             \o DumpsIndent(ExperienceHighlights(resume), 0)
             \o <<NL, "JOB DESCRIPTION:", NL>> \o job_description
             \o <<NL, "cover_instructions">>)

\* The text after an opening fence with its optional markdown tag dropped.
AfterFenceTag(rest) ==
  IF rest # <<>> /\ Head(rest) = "markdown" THEN Tail(rest) ELSE rest

\* The cover letter kept from the oracle's text: the stripped interior of
\* the first fenced block when there is one, the text itself otherwise.
CoverLetterMarkdown(text) ==
  IF Contains(text, Fence) /\ Contains(After(text, Fence), Fence)
  THEN Strip(Before(AfterFenceTag(After(text, Fence)), Fence))
  ELSE text

\* file_prefix: the fourth argument is the template name unless it starts
\* with "2", when it is taken for a timestamp.
CoverPrefix(timestamp) ==
  IF timestamp # <<>> /\ Head(timestamp) # "2"
  THEN timestamp \o <<"_cover_letter">>
  ELSE IF timestamp # <<>> THEN <<"cover_letter_">> \o timestamp
  ELSE <<"cover_letter">>

CoverMarkdownPath(timestamp) == OutputDir \o CoverPrefix(timestamp) \o <<".md">>

CoverPdfPath(timestamp) == OutputDir \o CoverPrefix(timestamp) \o <<".pdf">>

\* ------------------------------------------------------------------ tailor_resume_endpoint

\* os.path.basename: what follows the last slash.
Basename(path) ==
  IF Contains(path, <<"/">>) THEN From(path, FindLast(path, <<"/">>) + 1) ELSE path

\* os.path.splitext(...)[0]: the name up to its last dot, a leading dot
\* being part of the name.
SplitExtRoot(name) ==
  IF FindLast(name, <<".">>) > 1 /\ \E i \in 1..(FindLast(name, <<".">>) - 1) : name[i] # "."
  THEN SubSeq(name, 1, FindLast(name, <<".">>) - 1)
  ELSE name

\* template_name.
TemplateName(template) ==
  IF template # <<>> THEN SplitExtRoot(Basename(template)) ELSE <<"default">>

\* A variant of the resume's PDF path that leaves the template name out.
PdfPathUnnamed(template_name) == OutputDir \o <<"resume", ".pdf">>

\* pdf_path.
PdfPath(template_name) == OutputDir \o template_name \o <<"_resume", ".pdf">>

\* ------------------------------------------------------------------ state

VARIABLES
  ex,      \* the extractor under test: its input text and what it returned
  rn,      \* the renderers under test: the record, the fragment files, the output
  qa,      \* a call of generate_question_answers: its arguments, loop and result
  now,     \* the wall clock, in seconds
  files,   \* the output directory: path -> content and the request that wrote it
  req,     \* the /tailor-resume request being served, or the last one served
  pending, \* the requests not yet submitted
  au       \* a request to a protected route: its header, its way through the
           \* dependencies, the handler's effects and the response

vars == <<ex, rn, qa, now, files, req, pending, au>>

ExIdle == [pc |-> "idle"]

RnIdle == [pc |-> "idle"]

QaIdle == [pc |-> "idle"]

ReqIdle == [pc |-> "idle"]

AuIdle == [pc |-> "idle"]

NoFiles == <<>>

\* The server at rest: no request, an empty output directory.
ServerIdle == now = 0 /\ files = NoFiles /\ req = ReqIdle /\ pending = {} /\ au = AuIdle

\* ------------------------------------------------------------------ the extractor's inputs

S(word) == Str(<<word>>)

\* JSON objects an oracle may embed: flat, empty, nested, and with fence
\* markers inside a string.
ExObjects ==
  {Obj(<<Member(K("name"), S("A"))>>),
   Obj(<<>>),
   Obj(<<Member(K("keywords"), Arr(<<S("x"), S("y")>>)),
         Member(K("o"), Obj(<<Member(K("n"), Str(<<"v", SP, "w">>))>>))>>),
   Obj(<<Member(K("code"), Str(<<"run", SP, BT, BT, BT, "sh", BT, BT, BT>>))>>)}

\* Prose before the block: none, plain, with inline code, holding a fenced
\* snippet, and mentioning the json fence.
ExBefore ==
  {<<>>,
   <<"Here", SP, "it", SP, "is", ":", NL>>,
   <<"see", SP, BT, "x", BT, ":", NL>>,
   <<"use", SP, BT, BT, BT, "sh", NL, "ls", NL, BT, BT, BT, NL>>,
   <<"a", SP>> \o FenceJson \o <<SP, "block", ":", NL>>}

\* Prose after the block.
ExAfter ==
  {<<>>,
   <<NL, "Hope", SP, "it", SP, "helps", ".">>,
   <<NL>> \o FenceJson \o <<NL, "{", "}", NL>> \o Fence}

\* The tag on the opening fence: json, or none.
ExTags == {<<"j", "s", "o", "n">>, <<>>}

ExLayouts == {"compact", "indent"}

\* P1 + fenced block containing J + P2.
Wrapped(p1, tag, j, layout, p2) ==
  p1 \o Fence \o tag \o <<NL>>
     \o (IF layout = "compact" THEN Dumps(j) ELSE DumpsIndent(j, 0))
     \o <<NL>> \o Fence \o p2

\* Texts that are not built around a block: prose, bare JSON, broken JSON, an
\* unclosed fence, a fence around prose.
ExRawTexts ==
  {<<>>,
   <<"Sorry", ",", SP, "I", SP, "cannot", SP, "help", ".">>,
   Dumps(Obj(<<Member(K("job_title"), S("Dev"))>>)),
   <<SP, NL>> \o Dumps(Obj(<<Member(K("job_title"), S("Dev"))>>)) \o <<NL>>,
   <<"{", QT, "job_title", QT, ":", SP, QT, "Dev", QT, ",", "}">>,
   <<"{", QT, "job_title", QT, ":", SP, QT, "Dev">>,
   FenceJson \o <<NL, "{", "}">>,
   Fence \o <<NL, "no", SP, "json", SP, "here", NL>> \o Fence,
   Fence \o <<"j", "s", NL>> \o Dumps(Obj(<<>>)) \o <<NL>> \o Fence,
   <<"Title", ":", SP, "Dev", NL, "Skills", ":", SP, "(", "py", ")", SP, "-", SP, "go">>,
   <<"I", SP, "found", SP, BT, "nothing", BT, SP, "to", SP, "extract">>,
   <<"He", SP, "said", SP, QT, "hi", QT>>,
   Dumps(Arr(<<S("a")>>)),
   <<"Result", ":", SP>> \o Dumps(Obj(<<>>))}

\* Cover letters, the tags an oracle may put on the opening fence (none,
\* markdown, md, text) and what it may say around the block.
ExLetterBodies ==
  {W(<<"Dear", "Hiring", "Manager,">>) \o <<NL, NL>> \o W(<<"I", "apply.">>),
   <<SP>> \o W(<<"Dear", "Team">>) \o <<SP>>}

ExLetterTags == {<<>>, <<"markdown">>, <<"md">>, <<"text">>}

ExLetterBefore == {<<>>, W(<<"Here", "is", "the", "letter:">>) \o <<NL>>}

ExLetterAfter == {<<>>, <<NL>> \o W(<<"Good", "luck!">>)}

\* The letter in a fenced block: p1, the fence with its tag, the letter on
\* lines of its own, the closing fence, p2.
LetterWrapped(p1, tag, letter, p2) ==
  p1 \o Fence \o tag \o <<NL>> \o letter \o <<NL>> \o Fence \o p2

ExInputs ==
  {[pc |-> "input", wrapped |-> FALSE, p1 |-> p1, tag |-> tag, j |-> Str(letter),
    p2 |-> p2, text |-> LetterWrapped(p1, tag, letter, p2)] :
     p1 \in ExLetterBefore, tag \in ExLetterTags, letter \in ExLetterBodies,
     p2 \in ExLetterAfter}
  \cup
  {[pc |-> "input", wrapped |-> FALSE, p1 |-> <<>>, tag |-> <<>>, j |-> Obj(<<>>),
    p2 |-> <<>>, text |-> letter] : letter \in ExLetterBodies}
  \cup
  {[pc |-> "input", wrapped |-> TRUE, p1 |-> p1, tag |-> tag, j |-> j, p2 |-> p2,
    text |-> Wrapped(p1, tag, j, layout, p2)] :
     p1 \in ExBefore, tag \in ExTags, j \in ExObjects, layout \in ExLayouts, p2 \in ExAfter}
  \cup
  {[pc |-> "input", wrapped |-> FALSE, p1 |-> <<>>, tag |-> <<>>, j |-> Obj(<<>>),
    p2 |-> <<>>, text |-> t] : t \in ExRawTexts}

\* ------------------------------------------------------------------ the extractor's actions

\* analyze_job_description on the oracle's text: it returns a value.
ExAnalyze ==
  /\ ex.pc = "input"
  /\ ex' = [pc |-> "analyzed", wrapped |-> ex.wrapped, p1 |-> ex.p1, tag |-> ex.tag,
            j |-> ex.j, p2 |-> ex.p2, text |-> ex.text,
            raised |-> FALSE, val |-> AnalyzeJobDescription(ex.text),
            json_str |-> AnalyzeJsonStr(ex.text)]
  /\ UNCHANGED <<au, rn, qa, now, files, req, pending>>

\* tailor_resume's parse of the oracle's text: a value, or JSONDecodeError.
ExTailor ==
  /\ ex.pc = "input"
  /\ ex' = [pc |-> "tailored", wrapped |-> ex.wrapped, p1 |-> ex.p1, tag |-> ex.tag,
            j |-> ex.j, p2 |-> ex.p2, text |-> ex.text,
            raised |-> ~TailorLoads(ex.text).ok, val |-> TailorLoads(ex.text).val,
            json_str |-> TailorJsonStr(ex.text)]
  /\ UNCHANGED <<au, rn, qa, now, files, req, pending>>

\* generate_cover_letter from the oracle's text on: the markdown it persists.
ExCover ==
  /\ ex.pc = "input"
  /\ ex' = [pc |-> "covered", wrapped |-> ex.wrapped, p1 |-> ex.p1, tag |-> ex.tag,
            j |-> ex.j, p2 |-> ex.p2, text |-> ex.text,
            raised |-> FALSE, val |-> Str(CoverLetterMarkdown(ex.text))]
  /\ UNCHANGED <<au, rn, qa, now, files, req, pending>>

InitExtract == ex \in ExInputs /\ rn = RnIdle /\ qa = QaIdle /\ ServerIdle

NextExtract == ExAnalyze \/ ExTailor \/ ExCover

SpecExtract == InitExtract /\ [][NextExtract]_vars

\* ------------------------------------------------------------------ the renderers' inputs

\* The longest experience list of the renderers' inputs.
MaxExperience == 2

T(words) == Str(words)

Entry1 ==
  Obj(<<Member(K("title"), S("Dev")),
        Member(K("company"), T(<<"Acme", SP, "Corp", SP, "(", "Remote", ")">>)),
        Member(K("period"), T(<<"Jan", SP, "2020", SP, "-", SP, "Mar", SP, "2022">>)),
        Member(K("summary"), S("built")),
        Member(K("skills"), Arr(<<S("py"), S("go")>>)),
        Member(K("highlights"), Arr(<<S("h1"), T(<<SP>>), S("h2")>>))>>)

Entry2 ==
  Obj(<<Member(K("title"), S("QA")), Member(K("company"), S("Beta")),
        Member(K("period"), S("2022"))>>)

Entry3 ==
  Obj(<<Member(K("title"), S("Lead")),
        Member(K("company"), T(<<"Acme", SP, "(", "Remote", SP, "(", "EU", ")", ")">>)),
        Member(K("period"), T(<<"2020", "-", "01", SP, "-", SP, "2021", "-", "01">>)),
        Member(K("skills"), S("sql"))>>)

Entry4 ==
  Obj(<<Member(K("company"), T(<<"Gamma", SP, "(", "NY", ")", SP, "Inc">>)),
        Member(K("period"), T(<<SP, "2019", SP, "-", "2020", SP>>)),
        Member(K("title"), S("SRE")),
        Member(K("highlights"), Arr(<<>>))>>)

Entry5 ==
  Obj(<<Member(K("title"), S("Eng")),
        Member(K("company"), T(<<"Delta", SP, "(", "HQ">>)),
        Member(K("period"), T(<<"-", SP, "now">>))>>)

Entry6 ==
  Obj(<<Member(K("title"), S("Dev")),
        Member(K("company"), T(<<SP, "Zeta", SP, "(", SP, "Berlin", SP, ")", SP>>)),
        Member(K("period"), T(<<SP, "2021", SP>>)),
        Member(K("summary"), S("ran"))>>)

RnEntries == {Entry1, Entry2, Entry3, Entry4, Entry5, Entry6}

SeqsUpTo(set, n) == UNION {[1..k -> set] : k \in 0..n}

RnContacts ==
  {Obj(<<Member(K("email"), S("ann@x")), Member(K("location"), S("Kyiv"))>>),
   Obj(<<Member(K("email"), S("ann@x")), Member(K("github"), S("gh"))>>),
   Obj(<<Member(K("location"), EmptyStr)>>)}

\* references: absent (shown as Raise), empty, one reference.
RnReferences ==
  {Raise, Arr(<<>>),
   Arr(<<Obj(<<Member(K("name"), S("Bob")), Member(K("text"), S("boss")),
               Member(K("link"), S("url"))>>)>>)}

RnSkills ==
  {Obj(<<Member(K("lang"), Arr(<<S("py"), S("go")>>)), Member(K("misc"), S("git"))>>),
   Arr(<<S("py"), S("go")>>),
   S("py")}

EducationRecord ==
  Obj(<<Member(K("degree"), S("BSc")), Member(K("university"), S("KPI")),
        Member(K("period"), T(<<"2009", SP, "-", SP, "2011">>)),
        Member(K("description"), S("cs"))>>)

\* education: a single record, a record without period and description, a
\* sequence of records.
RnEducations ==
  {EducationRecord,
   Obj(<<Member(K("degree"), S("BSc")), Member(K("university"), S("KPI"))>>),
   Arr(<<EducationRecord>>)}

\* A ResumeRecord; references are left out when given as Raise.
Resume(name, contact, summary, experience, skills, education, references) ==
  Obj(<<Member(K("name"), name), Member(K("contact"), contact),
        Member(K("summary"), summary), Member(K("experience"), Arr(experience)),
        Member(K("skills"), skills), Member(K("education"), education)>>
      \o (IF references = Raise THEN <<>> ELSE <<Member(K("references"), references)>>))

RnName == T(<<"Ann", SP, "Lee">>)

\* ResumeRecords: every experience list up to MaxExperience with every
\* education shape, and every combination of the other optional shapes.
RnRecords ==
  {Resume(RnName, CHOOSE c \in RnContacts : Has(c, K("github")), S("sum"), e,
          CHOOSE k \in RnSkills : IsObj(k), d, Raise) :
     e \in SeqsUpTo(RnEntries, MaxExperience), d \in RnEducations}
  \cup
  {Resume(RnName, c, S("sum"), <<Entry1, Entry2>>, k, d, f) :
     c \in RnContacts, k \in RnSkills, d \in RnEducations, f \in RnReferences}

\* Values that are no ResumeRecord: a record without a name, one whose
\* summary is a list, a list, a string.
RnMalformed ==
  {Obj(<<Member(K("contact"), Obj(<<>>)), Member(K("summary"), S("sum"))>>),
   Resume(RnName, Obj(<<>>), Arr(<<S("sum")>>), <<>>, Arr(<<>>), EducationRecord, Raise),
   Arr(<<S("x")>>),
   S("output/resume.json")}

RnSample == Resume(RnName, CHOOSE c \in RnContacts : Has(c, K("github")), S("sum"),
                   <<Entry1>>, S("py"), EducationRecord, Raise)

\* ResumeRecords rendered with a fragment file missing: every shape of
\* contact, education and references.
RnFew ==
  {Resume(RnName, c, S("sum"), <<Entry1>>, CHOOSE k \in RnSkills : IsObj(k), d, f) :
     c \in RnContacts, d \in RnEducations, f \in RnReferences}

\* The renderers' inputs: every record with all fragment files present, and
\* some records and a value that is no record with each single file missing.
RnInputs ==
  {[pc |-> "input", r |-> r, present |-> FragmentNames] : r \in RnRecords \cup RnMalformed}
  \cup
  {[pc |-> "input", r |-> r, present |-> FragmentNames \ {f}] :
     r \in RnFew \cup {RnSample, Arr(<<S("x")>>)}, f \in FragmentNames}

\* ------------------------------------------------------------------ the record a consumer leaves

\* A variant in which a consumer keeps its notes in the record: the highlights
\* it gathered are stored under the record's summary.
ConsumedNoted(resume) ==
  IF IsObj(resume) THEN Obj(DictSet(resume.v, K("summary"), S("noted"))) ELSE resume

\* The record a consumer was passed, as the consumer leaves it.
\* convert_json_to_text, convert_json_to_markdown, generate_pdf_from_json,
\* generate_cover_letter and generate_question_answers read it (subscript,
\* get, in, isinstance, iteration) and append only to lists they made
\* themselves (text_content, contact_links, skills_items,
\* experience_highlights, exp_info, experience_text, answers); tailor_resume
\* passes resume_structure to json.dumps and nothing else.
Consumed(resume) == resume

\* ------------------------------------------------------------------ the renderers' actions

\* convert_json_to_text: the text it returns and writes, or the exception.
RnText ==
  /\ rn.pc = "input"
  /\ \E out \in {ConvertJsonToText(rn.r)} :
       rn' = [pc |-> "text", r |-> Consumed(rn.r), present |-> rn.present,
              ok |-> out.ok, text |-> out.text,
              written |-> IF out.ok THEN <<out.text>> ELSE <<>>]
  /\ UNCHANGED <<au, ex, qa, now, files, req, pending>>

\* The company/location and from/to that convert_json_to_markdown derives for
\* the entries of r, in order (empty when r has no list of well-formed entries).
MdSplits(r) ==
  IF IsObj(r) /\ Has(r, K("experience")) /\ IsArr(Get(r, K("experience")))
     /\ \A i \in 1..Len(Get(r, K("experience")).v) :
          LET exp == Get(r, K("experience")).v[i]
          IN IsObj(exp) /\ IsStr(GetOr(exp, K("company"), EmptyStr))
                        /\ IsStr(GetOr(exp, K("period"), EmptyStr))
  THEN [i \in 1..Len(Get(r, K("experience")).v) |->
          LET exp == Get(r, K("experience")).v[i]
              c == CompanySplit(GetOr(exp, K("company"), EmptyStr).v)
              d == PeriodSplit(GetOr(exp, K("period"), EmptyStr).v)
          IN [company |-> c.company, location |-> c.location, from |-> d.from, to |-> d.to]]
  ELSE <<>>

\* convert_json_to_markdown: the markdown it returns and writes, or the
\* exception, with the splits it made on the way.
RnMarkdown ==
  /\ rn.pc = "input"
  /\ \E md \in {ConvertJsonToMarkdown(rn.r, rn.present)} :
       rn' = [pc |-> "markdown", r |-> Consumed(rn.r), present |-> rn.present,
              ok |-> md.ok, notfound |-> md.notfound, text |-> md.text,
              splits |-> IF md.ok THEN MdSplits(rn.r) ELSE <<>>,
              written |-> IF md.ok THEN <<md.text>> ELSE <<>>]
  /\ UNCHANGED <<au, ex, qa, now, files, req, pending>>

InitRender == rn \in RnInputs /\ ex = ExIdle /\ qa = QaIdle /\ ServerIdle

NextRender == RnText \/ RnMarkdown

SpecRender == InitRender /\ [][NextRender]_vars

\* ------------------------------------------------------------------ generate_question_answers: inputs and steps

\* The longest question list of the inputs.
MaxQuestions == 2

JobDescription == W(<<"Senior", "Dev", "role">>)

Q1 == W(<<"Why", "us?">>)

Q2 == W(<<"Your", "stack?">>)

Questions == {Q1, Q2}

\* The oracle's answers: padded with white space, plain, blank.
AnswerTexts == {<<SP, NL>> \o W(<<"Because", "A">>) \o <<NL>>, W(<<"B", "it", "is">>), <<NL, SP>>}

\* Records with a field that is missing or not of its usual shape: no field
\* at all, skills listing a group among the names, an experience of bare
\* company names.
QaMalformed ==
  {Obj(<<>>),
   Obj(<<Member(K("name"), RnName),
         Member(K("skills"), Arr(<<S("python"), Arr(<<S("aws")>>)>>))>>),
   Obj(<<Member(K("name"), RnName),
         Member(K("experience"), Arr(<<S("Acme")>>))>>)}

\* Resumes the function is called with: records, well formed and not, and a
\* list.
QaResumes == {RnSample,
              Resume(RnName, Obj(<<>>), S("sum"), <<Entry1, Entry2>>,
                     CHOOSE k \in RnSkills : IsObj(k), EducationRecord, Raise),
              Arr(<<S("x")>>)} \cup QaMalformed

\* A call as it starts.
QaCall(questions, job_description, resume) ==
  [pc |-> "called", questions |-> questions, job_description |-> job_description,
   resume |-> resume, ctx |-> Raise, answers |-> <<>>, calls |-> <<>>]

QaInputs ==
  {QaCall(q, JobDescription, r) : q \in SeqsUpTo(Questions, MaxQuestions), r \in QaResumes}

\* The part before the loop: the function gathers the texts of the prompt, or
\* raises.
QaStart ==
  /\ qa.pc = "called"
  /\ \E ctx \in {QaContext(qa.resume)} :
       qa' = [qa EXCEPT !.pc = IF ctx = Raise THEN "raised" ELSE "asking", !.ctx = ctx,
                           !.resume = Consumed(@)]
  /\ UNCHANGED <<au, ex, rn, now, files, req, pending>>

\* A variant of the failed call that leaves the question without an answer
\* and lets the loop go on.
QaRaisedSkipped(call, prompt) ==
  [call EXCEPT !.answers = Append(@, <<>>),
               !.calls = Append(@, [prompt |-> prompt, response |-> Raise])]

\* model.generate_content raised: nothing around the call catches, so the
\* exception leaves the loop and the function, and the answers list, a local
\* of the function, goes with it.
QaRaised(call, prompt) ==
  [call EXCEPT !.pc = "raised", !.answers = <<>>,
               !.calls = Append(@, [prompt |-> prompt, response |-> Raise])]

\* One turn of the loop: the prompt for the next question goes to the oracle,
\* which answers or raises.
QaAsk ==
  /\ qa.pc = "asking"
  /\ Len(qa.answers) < Len(qa.questions)
  /\ \E response \in {Str(text) : text \in AnswerTexts} \cup {Raise} :
       \E prompt \in {QuestionPrompt(qa.ctx, qa.job_description,
                                     qa.questions[Len(qa.answers) + 1])} :
         qa' = IF response = Raise
               THEN QaRaised(qa, prompt)
               ELSE [qa EXCEPT !.answers = PushAnswer(@, Answer(response.v)),
                               !.calls = Append(@, [prompt |-> prompt,
                                                    response |-> response])]
  /\ UNCHANGED <<au, ex, rn, now, files, req, pending>>

\* return answers.
QaReturn ==
  /\ qa.pc = "asking"
  /\ Len(qa.answers) >= Len(qa.questions)
  /\ qa' = [qa EXCEPT !.pc = "returned"]
  /\ UNCHANGED <<au, ex, rn, now, files, req, pending>>

InitAnswers == qa \in QaInputs /\ ex = ExIdle /\ rn = RnIdle /\ ServerIdle

NextAnswers == QaStart \/ QaAsk \/ QaReturn

SpecAnswers == InitAnswers /\ [][NextAnswers]_vars

\* ------------------------------------------------------------------ the server: inputs

\* The last second of the clock.
MaxClock == 1

\* The requests that may be submitted.
Requests == {"r1", "r2"}

\* resume_templates/: the files it holds.
Michael == <<"michael", ".", "json">>

Second == <<"2", "nd", ".", "json">>

Ghost == <<"ghost", ".", "json">>

TemplateFiles == {Michael, Second}

\* json.load of a template file.
TemplateResume(template) ==
  IF template = Michael THEN RnSample
  ELSE Resume(T(<<"Bo", SP, "Ek">>), Obj(<<Member(K("email"), S("bo@x"))>>), S("ops"),
              <<Entry2>>, Arr(<<S("sh")>>), Arr(<<EducationRecord>>), Raise)

\* What a client submits: template, questions, return_json.
Submission(template, questions, return_json) ==
  [template |-> template, questions |-> questions, return_json |-> return_json]

Submissions ==
  {Submission(Michael, <<Q1, Q2>>, TRUE), Submission(Michael, <<>>, FALSE),
   Submission(Second, <<Q2>>, FALSE), Submission(Ghost, <<>>, TRUE)}

\* A resume the oracle may send back for a template resume: the summary
\* rewritten, everything else kept.
Retold(resume) == Obj(DictSet(resume.v, K("summary"), S("tailored")))

\* A resume the oracle may send back against its instructions: another name,
\* another contact, one entry with another company and period.
Rewritten(resume) ==
  Obj(DictSet(DictSet(DictSet(resume.v, K("name"), S("Zed")),
                      K("contact"), Obj(<<Member(K("email"), S("zed@y"))>>)),
              K("experience"), Arr(<<Entry4>>)))

\* What the oracle may answer to the tailoring prompt, with the value it
\* meant to send (Raise when it sent none): a json-fenced resume after prose,
\* a bare resume, prose, a bare list; or the call may raise.
TailoringAnswers(resume) ==
  {[text |-> W(<<"Here", "it", "is:">>) \o <<NL>> \o FenceJson \o <<NL>>
               \o DumpsIndent(Retold(resume), 0) \o <<NL>> \o Fence,
    sent |-> Retold(resume)],
   [text |-> Dumps(Rewritten(resume)), sent |-> Rewritten(resume)],
   [text |-> W(<<"Sorry,", "I", "cannot", "help.">>) \o <<NL>>, sent |-> Raise],
   [text |-> Dumps(Arr(<<S("x")>>)), sent |-> Arr(<<S("x")>>)]}

\* What the oracle may answer to the cover letter prompt.
CoverAnswers ==
  {W(<<"Dear", "Hiring", "Manager">>),
   Fence \o <<"markdown", NL>> \o W(<<"Dear", "Team">>) \o <<NL>> \o Fence \o <<NL>>}

\* What an earlier request was answered with: its id, its template name and
\* the files its resume_url and cover_letter_url point to.
Earlier(request) ==
  [id |-> request.id, name |-> TemplateName(request.template),
   resume |-> request.pdf_path, cover_letter |-> request.cover_letter_path]

NoEarlier == [id |-> "", name |-> <<>>, resume |-> <<>>, cover_letter |-> <<>>]

\* A request as it is accepted: nothing done yet, no oracle call made.
Request(id, submission) ==
  [pc |-> "tailor", id |-> id, template |-> submission.template,
   questions |-> submission.questions, return_json |-> submission.return_json,
   answer |-> Raise, sent |-> Raise, resume |-> Raise, base |-> Raise,
   json_path |-> <<>>, raw_path |-> <<>>, text_path |-> <<>>, pdf_path |-> <<>>,
   cover_letter_path |-> <<>>, answers |-> <<>>, status |-> 0, response |-> <<>>,
   error |-> "", oracle |-> <<>>, earlier |-> NoEarlier]

\* What a file holds, and the request that wrote it last, with its template
\* name and the second of the write.
Written(content, request, at) ==
  [content |-> content, id |-> request.id, name |-> TemplateName(request.template), at |-> at]

\* The directory after open(path, "w") and write(content).
Write(dir, path, content, request, at) ==
  [q \in DOMAIN dir \cup {path} |->
     IF q = path THEN Written(content, request, at) ELSE dir[q]]

\* The directory of the base templates and the path of one.
TemplateDir == <<"resume_templates", "/">>

TemplatePath(template) == TemplateDir \o template

\* A request when one of the consumers of its tailored resume is back, with
\* a result or an exception: the record is as the consumer left it.
Back(request) == [request EXCEPT !.resume = Consumed(@)]

\* A request whose template is loaded and whose tailoring prompt is built:
\* base is resume_structure as building the prompt left it.
Tailoring(request, resume_structure) == [request EXCEPT !.base = Consumed(resume_structure)]

\* A variant of the failure that starts the request over.
Retried(request, why) == [request EXCEPT !.pc = "tailor"]

\* except Exception: HTTPException(status_code=500), whatever step raised
\* (`why` names it); the request is over.
Failed(request, why) == [request EXCEPT !.pc = "failed", !.status = 500, !.error = why]

\* model.generate_content(prompt): one more call of the oracle in the request,
\* for the tailoring prompt, the cover letter prompt or question k, which
\* answered or raised.
Called(request, prompt, k, raised) ==
  [request EXCEPT !.oracle = Append(@, [prompt |-> prompt, k |-> k, raised |-> raised])]

\* A variant of the template load that falls back to the default template.
LoadTemplateDefault(template) ==
  IF template \in TemplateFiles THEN TemplateResume(template) ELSE TemplateResume(Michael)

\* open(template_path) and json.load: the template's record, or
\* FileNotFoundError.
LoadTemplate(template) ==
  IF template \in TemplateFiles THEN TemplateResume(template) ELSE Raise

\* A variant of the PDF step that writes the markdown once the PDF is saved.
SavePdfMarkdownLast(dir, pdf_path, markdown, saved, request, at) ==
  IF saved
  THEN Write(Write(dir, pdf_path, Pdf(markdown), request, at),
             MarkdownBeside(pdf_path), markdown, request, at)
  ELSE dir

\* A variant that leaves a PDF that is already there as it is.
SavePdfKeepExisting(dir, pdf_path, markdown, saved, request, at) ==
  IF saved /\ pdf_path \notin DOMAIN dir
  THEN Write(Write(dir, MarkdownBeside(pdf_path), markdown, request, at),
             pdf_path, Pdf(markdown), request, at)
  ELSE Write(dir, MarkdownBeside(pdf_path), markdown, request, at)

\* A variant that takes the request's files away when pdf.save raises.
SavePdfRollback(dir, pdf_path, markdown, saved, request, at) ==
  IF saved
  THEN Write(Write(dir, MarkdownBeside(pdf_path), markdown, request, at),
             pdf_path, Pdf(markdown), request, at)
  ELSE [path \in {q \in DOMAIN dir : dir[q].id # request.id} |-> dir[path]]

\* The directory after the markdown is written beside the PDF and pdf.save
\* is called, which saves the PDF or raises.
SavePdf(dir, pdf_path, markdown, saved, request, at) ==
  IF saved
  THEN Write(Write(dir, MarkdownBeside(pdf_path), markdown, request, at),
             pdf_path, Pdf(markdown), request, at)
  ELSE Write(dir, MarkdownBeside(pdf_path), markdown, request, at)

\* ------------------------------------------------------------------ the server: steps

\* A second passes.
Tick ==
  /\ now < MaxClock
  /\ now' = now + 1
  /\ UNCHANGED <<au, ex, rn, qa, files, req, pending>>

\* POST /tailor-resume arrives; the handler has no await, so the server
\* runs one request at a time.
Submit ==
  /\ req.pc \in {"idle", "done", "failed"}
  /\ \E id \in pending, submission \in Submissions :
       /\ req' = [Request(id, submission) EXCEPT
                    !.earlier = IF req.pc = "done" THEN Earlier(req)
                                ELSE IF req.pc = "failed" THEN req.earlier
                                ELSE NoEarlier]
       /\ pending' = pending \ {id}
  /\ UNCHANGED <<au, ex, rn, qa, now, files>>

\* tailor_resume: the template is loaded, the oracle is asked, its answer is
\* parsed and saved as JSON; an answer that does not parse is saved raw and
\* the function raises.
TailorResume ==
  /\ req.pc = "tailor"
  /\ \E resume_structure \in {LoadTemplate(req.template)} :
       IF resume_structure = Raise
       THEN req' = Failed(req, "template") /\ files' = files
       ELSE \E answer \in TailoringAnswers(resume_structure) \cup {Raise} :
              IF answer = Raise
              THEN /\ req' = Failed(Called(Tailoring(req, resume_structure), "tailoring", 0, TRUE), "oracle")
                   /\ files' = files
              ELSE \E result \in {TailorResult(resume_structure, answer.text)} :
                     IF result.ok
                     THEN /\ files' = Write(files, JsonPath(Stamp(now)),
                                            DumpsIndent(result.resume, 0), req, now)
                          /\ req' = [Called(Tailoring(req, resume_structure), "tailoring", 0, FALSE) EXCEPT
                                       !.pc = "text", !.answer = Str(answer.text),
                                       !.sent = answer.sent, !.resume = result.resume,
                                       !.json_path = JsonPath(Stamp(now))]
                     ELSE /\ files' = Write(files, RawPath(Stamp(now)), answer.text, req, now)
                          /\ req' = [Failed(Called(Tailoring(req, resume_structure), "tailoring", 0, FALSE),
                                              "parse") EXCEPT
                                       !.answer = Str(answer.text), !.sent = answer.sent,
                                       !.raw_path = RawPath(Stamp(now))]
  /\ UNCHANGED <<au, ex, rn, qa, now, pending>>

\* convert_json_to_text: the text is built and saved.
ConvertText ==
  /\ req.pc = "text"
  /\ \E out \in {ConvertJsonToText(req.resume)} :
       IF out.ok
       THEN /\ files' = Write(files, TextPath(Stamp(now)), out.text, req, now)
            /\ req' = [Back(req) EXCEPT !.pc = "pdf", !.text_path = TextPath(Stamp(now))]
       ELSE req' = Failed(Back(req), "text") /\ files' = files
  /\ UNCHANGED <<au, ex, rn, qa, now, pending>>

\* generate_pdf_from_json: convert_json_to_markdown saves its markdown, the
\* markdown is saved again beside the PDF, and the PDF is rendered, which may
\* fail.
PdfFromJson ==
  /\ req.pc = "pdf"
  /\ \E md \in {ConvertJsonToMarkdown(req.resume, FragmentNames)}, saved \in BOOLEAN :
       \E pdf_path \in {PdfPath(TemplateName(req.template))} :
         IF ~md.ok
         THEN req' = Failed(Back(req), "markdown") /\ files' = files
         ELSE /\ files' = SavePdf(Write(files, MarkdownPath(Stamp(now)), md.text, req, now),
                                  pdf_path, md.text, saved, req, now)
              /\ req' = IF saved THEN [Back(req) EXCEPT !.pc = "cover", !.pdf_path = pdf_path]
                        ELSE Failed(Back(req), "render")
  /\ UNCHANGED <<au, ex, rn, qa, now, pending>>

\* generate_cover_letter, called when the tailored resume is truthy: the
\* oracle's letter is saved as markdown, and generate_pdf_from_markdown saves
\* it again beside the PDF and renders the PDF, which may fail.
CoverLetter ==
  /\ req.pc = "cover"
  /\ IF ~Truthy(req.resume)
     THEN req' = [req EXCEPT !.pc = "answers"] /\ files' = files
     ELSE \E prompt \in {CoverLetterPrompt(req.resume, JobDescription)} :
          \E answer \in {Str(text) : text \in CoverAnswers} \cup {Raise}, saved \in BOOLEAN :
            IF prompt = Raise
            THEN req' = Failed(Back(req), "cover_prompt") /\ files' = files
            ELSE IF answer = Raise
            THEN req' = Failed(Called(Back(req), "cover", 0, TRUE), "oracle") /\ files' = files
            ELSE \E name \in {TemplateName(req.template)} :
                   /\ files' = SavePdf(Write(files, CoverMarkdownPath(name),
                                             CoverLetterMarkdown(answer.v), req, now),
                                       CoverPdfPath(name), CoverLetterMarkdown(answer.v),
                                       saved, req, now)
                   /\ req' = IF saved
                             THEN [Called(Back(req), "cover", 0, FALSE) EXCEPT
                                     !.pc = "answers", !.cover_letter_path = CoverPdfPath(name)]
                             ELSE Failed(Called(Back(req), "cover", 0, FALSE), "render_cover")
  /\ UNCHANGED <<au, ex, rn, qa, now, pending>>

\* The questions, when there are any, go to generate_question_answers.
AskQuestions ==
  /\ req.pc = "answers"
  /\ IF req.questions # <<>>
     THEN /\ qa' = QaCall(req.questions, JobDescription, req.resume)
          /\ req' = [req EXCEPT !.pc = "answering"]
     ELSE /\ qa' = qa
          /\ req' = [req EXCEPT !.pc = "respond"]
  /\ UNCHANGED <<au, ex, rn, now, files, pending>>

\* The oracle calls a call of generate_question_answers made, as a request
\* logs them: question k, answered or raised.
QuestionCalls(calls) ==
  [k \in 1..Len(calls) |-> [prompt |-> "question", k |-> k, raised |-> calls[k].response = Raise]]

\* generate_question_answers is back: with the answers, or with an exception.
Answered ==
  /\ req.pc = "answering"
  /\ qa.pc \in {"returned", "raised"}
  /\ \E request \in {[req EXCEPT !.resume = qa.resume,
                                  !.oracle = @ \o QuestionCalls(qa.calls)]} :
       req' = IF qa.pc = "returned"
              THEN [request EXCEPT !.pc = "respond", !.answers = qa.answers]
              ELSE Failed(request, IF qa.ctx = Raise THEN "answers_prompt" ELSE "oracle")
  /\ qa' = QaIdle
  /\ UNCHANGED <<au, ex, rn, now, files, pending>>

\* The name of a path: what follows its last slash.
PathName(path) == Basename(path)

\* A variant of the response that gives the paths and the answers whether or
\* not they were asked for.
ResponseBodyFull(request) ==
  Obj(<<Member(K("resume_url"),
               Str(<<"/download/resume/">> \o PathName(request.pdf_path))),
        Member(K("answers"),
               Arr([i \in 1..Len(request.answers) |-> Str(request.answers[i])])),
        Member(K("json_path"), Str(request.json_path)),
        Member(K("text_path"), Str(request.text_path))>>)

\* The response body: the members the handler sets, in order.
ResponseBody(request) ==
  Obj(<<Member(K("resume_url"),
               Str(<<"/download/resume/">> \o PathName(request.pdf_path)))>>
      \o (IF request.cover_letter_path # <<>>
          THEN <<Member(K("cover_letter_url"),
                        Str(<<"/download/cover_letter/">>
                              \o PathName(request.cover_letter_path)))>>
          ELSE <<>>)
      \o (IF request.questions # <<>>
          THEN <<Member(K("answers"),
                        Arr([i \in 1..Len(request.answers) |-> Str(request.answers[i])]))>>
          ELSE <<>>)
      \o (IF request.return_json
          THEN <<Member(K("json_path"), Str(request.json_path)),
                 Member(K("text_path"), Str(request.text_path))>>
          ELSE <<>>))

\* return response.
Respond ==
  /\ req.pc = "respond"
  /\ req' = [req EXCEPT !.pc = "done", !.status = 200, !.response = ResponseBody(req).v]
  /\ UNCHANGED <<au, ex, rn, qa, now, files, pending>>

Init ==
  /\ ex = ExIdle /\ rn = RnIdle /\ qa = QaIdle
  /\ now = 0 /\ files = NoFiles /\ req = ReqIdle /\ pending = Requests /\ au = AuIdle

Next ==
  \/ Tick \/ Submit \/ TailorResume \/ ConvertText \/ PdfFromJson \/ CoverLetter
  \/ AskQuestions \/ QaStart \/ QaAsk \/ QaReturn \/ Answered \/ Respond

Spec == Init /\ [][Next]_vars

\* ------------------------------------------------------------------ the protected routes

\* SECRET_KEY and ALGORITHM as the server runs with them.
SecretKey == "SECRET_KEY"

Algorithm == "HS256"

\* users.json: the usernames it lists.
Users == {"ann"}

\* A signed token as a client may hold one: the key and algorithm it was
\* signed with, its exp claim (a second of the clock) and its sub claim
\* ("" when the payload has none). Garbled is a string that is no token.
Garbled == [form |-> "garbled", key |-> "", alg |-> "", exp |-> 0, sub |-> ""]

Jwt(key, alg, exp, sub) == [form |-> "jwt", key |-> key, alg |-> alg, exp |-> exp, sub |-> sub]

Tokens ==
  {Garbled} \cup {Jwt(key, alg, exp, sub) : key \in {SecretKey, "guess"},
                                            alg \in {Algorithm, "none"},
                                            exp \in {0, MaxClock + 1},
                                            sub \in {"", "ann", "eve"}}

\* The Authorization header of a request: absent, of another scheme, or
\* Bearer with a token.
NoHeader == [scheme |-> "", credentials |-> Garbled]

Headers ==
  {NoHeader, [scheme |-> "Basic", credentials |-> Garbled]}
  \cup {[scheme |-> "Bearer", credentials |-> token] : token \in Tokens}

\* The protected routes, and the file names asked of cover_letter/content.
ProtectedRoutes == {"tailor-resume", "templates", "cover_letter/content"}

LetterPdf == <<"michael", "_cover_letter", ".pdf">>

NoSuchPdf == <<"nobody", "_cover_letter", ".pdf">>

\* An output directory that holds one cover letter.
LetterFiles ==
  [path \in {OutputDir \o Replace(LetterPdf, <<".pdf">>, <<".md">>)} |->
     [content |-> W(<<"Dear", "Team">>), id |-> "r0", name |-> <<"michael">>, at |-> 0]]

\* jwt.decode(token, SECRET_KEY, algorithms=[ALGORITHM]) in the second `at`:
\* the payload, or InvalidTokenError for a string that is no token, a bad
\* signature, another algorithm or an exp that has passed.
JwtDecode(token, at) ==
  IF token.form # "jwt" \/ token.alg # Algorithm \/ token.key # SecretKey \/ token.exp <= at
  THEN [ok |-> FALSE, sub |-> ""]
  ELSE [ok |-> TRUE, sub |-> token.sub]

\* A variant of the lookup that trusts the payload's sub.
GetCurrentUserInAnySub(usernames, token, at) ==
  IF ~JwtDecode(token, at).ok \/ JwtDecode(token, at).sub = ""
  THEN [status |-> 401, user |-> ""]
  ELSE [status |-> 200, user |-> JwtDecode(token, at).sub]

\* get_current_user when users.json lists `usernames`: the token is decoded,
\* load_users() reads the file as it is now, and the user the sub names is
\* returned, or the 401 credentials_exception is raised.
GetCurrentUserIn(usernames, token, at) ==
  IF ~JwtDecode(token, at).ok \/ JwtDecode(token, at).sub = ""
  THEN [status |-> 401, user |-> ""]
  ELSE IF JwtDecode(token, at).sub \notin usernames
  THEN [status |-> 401, user |-> ""]
  ELSE [status |-> 200, user |-> JwtDecode(token, at).sub]

\* A variant of get_current_user that trusts the payload's sub.
GetCurrentUserAnySub(token, at) ==
  IF ~JwtDecode(token, at).ok \/ JwtDecode(token, at).sub = ""
  THEN [status |-> 401, user |-> ""]
  ELSE [status |-> 200, user |-> JwtDecode(token, at).sub]

\* get_current_user: the user of users.json the token's sub names, or the
\* 401 credentials_exception.
GetCurrentUser(token, at) == GetCurrentUserIn(Users, token, at)

\* The status with which HTTPBearer turns away a request without bearer
\* credentials: 403 or 401, by the version of the framework.
NotAuthenticated == {401, 403}

\* The requests that arrive at a protected route.
AuInputs ==
  {[pc |-> "arrived", route |-> route, header |-> header, filename |-> filename,
    at |-> 0, user |-> "", status |-> 0, effects |-> <<>>, body |-> <<>>] :
     route \in ProtectedRoutes, header \in Headers, filename \in {LetterPdf, NoSuchPdf}}

\* Depends(security): HTTPBearer passes the credentials of a Bearer header on,
\* and turns any other request away.
AuBearer ==
  /\ au.pc = "arrived"
  /\ IF au.header.scheme = "Bearer"
     THEN au' = [au EXCEPT !.pc = "credentials"]
     ELSE \E status \in NotAuthenticated :
            au' = [au EXCEPT !.pc = "rejected", !.status = status]
  /\ UNCHANGED <<ex, rn, qa, now, files, req, pending>>

\* get_current_user on the credentials.
AuCurrentUser ==
  /\ au.pc = "credentials"
  /\ \E found \in {GetCurrentUser(au.header.credentials, now)} :
       au' = IF found.status = 200
             THEN [au EXCEPT !.pc = "authenticated", !.at = now, !.user = found.user]
             ELSE [au EXCEPT !.pc = "rejected", !.at = now, !.status = found.status]
  /\ UNCHANGED <<ex, rn, qa, now, files, req, pending>>

\* tailor_resume_endpoint is entered: its steps are the server's.
AuTailor ==
  /\ au.pc = "authenticated" /\ au.route = "tailor-resume"
  /\ au' = [au EXCEPT !.pc = "handling", !.effects = <<"tailor_resume">>]
  /\ UNCHANGED <<ex, rn, qa, now, files, req, pending>>

\* get_templates: the listing of resume_templates.
AuTemplates ==
  /\ au.pc = "authenticated" /\ au.route = "templates"
  /\ au' = [au EXCEPT !.pc = "responded", !.status = 200, !.effects = <<"listdir">>,
                      !.body = <<"templates">>]
  /\ UNCHANGED <<ex, rn, qa, now, files, req, pending>>

\* get_cover_letter_content: the markdown beside the named PDF, or 404.
AuCoverContent ==
  /\ au.pc = "authenticated" /\ au.route = "cover_letter/content"
  /\ \E path \in {OutputDir \o Replace(au.filename, <<".pdf">>, <<".md">>)} :
       au' = IF path \in DOMAIN files
             THEN [au EXCEPT !.pc = "responded", !.status = 200, !.effects = <<"read">>,
                             !.body = files[path].content]
             ELSE [au EXCEPT !.pc = "responded", !.status = 404, !.effects = <<"exists">>]
  /\ UNCHANGED <<ex, rn, qa, now, files, req, pending>>

InitAuth ==
  /\ au \in AuInputs /\ ex = ExIdle /\ rn = RnIdle /\ qa = QaIdle
  /\ now = 0 /\ files = LetterFiles /\ req = ReqIdle /\ pending = {}

NextAuth == Tick \/ AuBearer \/ AuCurrentUser \/ AuTailor \/ AuTemplates \/ AuCoverContent

SpecAuth == InitAuth /\ [][NextAuth]_vars

\* ------------------------------------------------------------------ sign-in

\* ACCESS_TOKEN_EXPIRE_MINUTES, in seconds.
AccessTokenExpire == 1800

\* users.json as the server is started with it: a list of entries.
UsersFile ==
  <<[username |-> "ann", password |-> "pw1"], [username |-> "bob", password |-> "pw2"]>>

\* The usernames a credential file lists.
Usernames(users) == {users[i].username : i \in 1..Len(users)}

\* The file without its i-th entry.
Without(users, i) == SubSeq(users, 1, i - 1) \o SubSeq(users, i + 1, Len(users))

NoUser == [username |-> "", password |-> ""]

NoToken == [form |-> "none", key |-> "", alg |-> "", exp |-> 0, sub |-> ""]

\* A variant of authenticate_user that looks at the username only.
AuthenticateUserByName(users, name, password) ==
  IF \E i \in 1..Len(users) : users[i].username = name
  THEN users[CHOOSE i \in 1..Len(users) :
               /\ users[i].username = name
               /\ \A j \in 1..(i - 1) : users[j].username # name]
  ELSE NoUser

\* authenticate_user: the first entry of the file whose username and
\* password both equal the ones submitted; NoUser stands for False.
AuthenticateUser(users, name, password) ==
  IF \E i \in 1..Len(users) : users[i].username = name /\ users[i].password = password
  THEN users[CHOOSE i \in 1..Len(users) :
               /\ users[i].username = name /\ users[i].password = password
               /\ \A j \in 1..(i - 1) :
                    ~(users[j].username = name /\ users[j].password = password)]
  ELSE NoUser

\* create_access_token(data={"sub": username}, expires_delta): the token
\* signed with SECRET_KEY and ALGORITHM that expires expires_delta from now.
CreateAccessToken(sub, expires_delta, at) == Jwt(SecretKey, Algorithm, at + expires_delta, sub)

\* The sign-in requests: a username and a password, right or wrong.
SiInputs ==
  {[pc |-> "signin", users |-> UsersFile, seen |-> <<>>, username |-> username,
    password |-> password, status |-> 0, token |-> NoToken, sent |-> NoToken,
    at |-> 0, user |-> ""] :
     username \in {"ann", "bob", "eve"}, password \in {"pw1", "pw2", "guess"}}

\* POST /signin: 401 for credentials no entry has, a token for the entry's
\* username otherwise.
SiSignin ==
  /\ au.pc = "signin"
  /\ \E user \in {AuthenticateUser(au.users, au.username, au.password)} :
       au' = IF user = NoUser
             THEN [au EXCEPT !.pc = "refused", !.seen = au.users, !.status = 401, !.at = now]
             ELSE [au EXCEPT !.pc = "signed", !.seen = au.users, !.status = 200, !.at = now,
                             !.token = CreateAccessToken(user.username, AccessTokenExpire, now),
                             !.user = user.username]
  /\ UNCHANGED <<ex, rn, qa, now, files, req, pending>>

\* An administrator takes an entry out of users.json.
SiRemove ==
  /\ au.pc \in {"signin", "signed"}
  /\ \E i \in 1..Len(au.users) : au' = [au EXCEPT !.users = Without(au.users, i)]
  /\ UNCHANGED <<ex, rn, qa, now, files, req, pending>>

\* The client sends the token it was issued, or one of the same key and
\* expiry without a sub, to a protected route: get_current_user decides on
\* the file as it is now.
SiRequest ==
  /\ au.pc = "signed"
  /\ \E token \in {au.token, Jwt(SecretKey, Algorithm, au.token.exp, "")} :
       \E found \in {GetCurrentUserIn(Usernames(au.users), token, now)} :
         au' = [au EXCEPT !.pc = IF found.status = 200 THEN "accepted" ELSE "rejected",
                          !.sent = token, !.status = found.status, !.at = now,
                          !.user = found.user]
  /\ UNCHANGED <<ex, rn, qa, now, files, req, pending>>

InitSignin ==
  /\ au \in SiInputs /\ ex = ExIdle /\ rn = RnIdle /\ qa = QaIdle
  /\ now = 0 /\ files = NoFiles /\ req = ReqIdle /\ pending = {}

NextSignin == Tick \/ SiSignin \/ SiRemove \/ SiRequest

SpecSignin == InitSignin /\ [][NextSignin]_vars

\* ------------------------------------------------------------------ the server: downloads

\* HTTPException(status_code=404): no file is sent.
NotFound == [status |-> 404, content |-> Raise, disposition |-> "", filename |-> <<>>]

\* FileResponse(path=file_path, ...): the file as it is on disk, to be saved
\* under `filename` or shown inline.
FileResponse(dir, path, disposition, filename) ==
  [status |-> 200, content |-> dir[path].content, disposition |-> disposition,
   filename |-> filename]

\* name.split(sep)[0]: what stands before the first sep, the whole name
\* when there is none.
SplitHead(name, sep) ==
  IF Contains(name, sep) THEN SubSeq(name, 1, Find(name, sep) - 1) ELSE name

\* template_name of download_resume.
ResumeTemplateName(name) ==
  IF Contains(name, <<"_resume">>) THEN SplitHead(name, <<"_resume">>) ELSE <<"tailored">>

\* template_name of download_cover_letter.
CoverLetterTemplateName(name) ==
  IF Contains(name, <<"_cover_letter">>)
  THEN SplitHead(name, <<"_cover_letter">>)
  ELSE <<"default">>

\* A variant of the resume route that asks for a Bearer header.
DownloadResumeBearer(dir, filename, mode, authorization) ==
  IF authorization.scheme # "Bearer"
  THEN [NotFound EXCEPT !.status = 403]
  ELSE IF OutputDir \o filename \notin DOMAIN dir
  THEN NotFound
  ELSE IF mode = "download"
  THEN FileResponse(dir, OutputDir \o filename, "attachment",
                    ResumeTemplateName(filename) \o <<"_resume", ".pdf">>)
  ELSE FileResponse(dir, OutputDir \o filename, "inline", <<>>)

\* GET /download/resume/{filename}: the route has no dependency on
\* get_current_user, so the Authorization header of the request is not read.
DownloadResume(dir, filename, mode, authorization) ==
  IF OutputDir \o filename \notin DOMAIN dir
  THEN NotFound
  ELSE IF mode = "download"
  THEN FileResponse(dir, OutputDir \o filename, "attachment",
                    ResumeTemplateName(filename) \o <<"_resume", ".pdf">>)
  ELSE FileResponse(dir, OutputDir \o filename, "inline", <<>>)

\* GET /download/cover_letter/{filename}, which reads no header either.
DownloadCoverLetter(dir, filename, mode, authorization) ==
  IF OutputDir \o filename \notin DOMAIN dir
  THEN NotFound
  ELSE IF mode = "download"
  THEN FileResponse(dir, OutputDir \o filename, "attachment",
                    CoverLetterTemplateName(filename) \o <<"_cover_letter", ".pdf">>)
  ELSE FileResponse(dir, OutputDir \o filename, "inline", <<>>)

\* The output directory after a Tailor request of a signed-in user for
\* `template` has saved its resume and its cover letter.
DlTailored(dir, id, template, at) ==
  LET request == Request(id, Submission(template, <<>>, FALSE))
      name == TemplateName(template)
      letter == CoverLetterMarkdown(W(<<"Dear", "Team">>))
  IN SavePdf(Write(SavePdf(dir, PdfPath(name), <<"#", SP, "Ann">>, TRUE, request, at),
                   CoverMarkdownPath(name), letter, request, at),
             CoverPdfPath(name), letter, TRUE, request, at)

DlDirectories ==
  {NoFiles, DlTailored(NoFiles, "r1", Michael, 0), DlTailored(NoFiles, "r1", Second, 0),
   DlTailored(DlTailored(NoFiles, "r1", Michael, 0), "r2", Second, 1)}

\* The file names a client may ask for: the names the Tailor response gave,
\* the names the spec gives, names of nothing.
DlFilenames ==
  {PathName(PdfPath(TemplateName(template))) : template \in {Michael, Second}}
  \cup {PathName(CoverPdfPath(TemplateName(template))) : template \in {Michael, Second}}
  \cup {<<"2", "nd", "_cover_letter", ".pdf">>, <<"nothing", ".pdf">>}

DlHeaders ==
  {NoHeader,
   [scheme |-> "Bearer", credentials |-> Jwt(SecretKey, Algorithm, MaxClock + 1, "ann")]}

DlIdle == [pc |-> "idle"]

\* A download as it was asked and answered.
Download(route, filename, mode, authorization, response) ==
  [pc |-> "served", route |-> route, filename |-> filename, mode |-> mode,
   authorization |-> authorization, response |-> response]

DlResume ==
  /\ \E filename \in DlFilenames, mode \in {"", "download"}, authorization \in DlHeaders :
       au' = Download("resume", filename, mode, authorization,
                      DownloadResume(files, filename, mode, authorization))
  /\ UNCHANGED <<ex, rn, qa, now, files, req, pending>>

DlCoverLetter ==
  /\ \E filename \in DlFilenames, mode \in {"", "download"}, authorization \in DlHeaders :
       au' = Download("cover_letter", filename, mode, authorization,
                      DownloadCoverLetter(files, filename, mode, authorization))
  /\ UNCHANGED <<ex, rn, qa, now, files, req, pending>>

InitDownload ==
  /\ au = DlIdle /\ files \in DlDirectories /\ ex = ExIdle /\ rn = RnIdle /\ qa = QaIdle
  /\ now = 0 /\ req = ReqIdle /\ pending = {}

NextDownload == DlResume \/ DlCoverLetter

SpecDownload == InitDownload /\ [][NextDownload]_vars

\* ================================================================== properties

EndsInBacktick(s) == s # <<>> /\ s[Len(s)] = BT

\* The wrapped inputs on which the first fence the extractor finds is the
\* block's own: J's text holds no fence marker, and either the block is tagged
\* json and P1 holds no json-tagged marker, or it is untagged, neither P1 nor
\* P2 holds a fence marker and P1 does not end in a backtick.
C2_Covered ==
  /\ ex.wrapped
  /\ ~Contains(Dumps(ex.j), Fence)
  /\ \/ ex.tag = <<"j", "s", "o", "n">> /\ ~Contains(ex.p1, FenceJson)
     \/ /\ ex.tag = <<>>
        /\ ~Contains(ex.p1, Fence) /\ ~Contains(ex.p2, Fence) /\ ~EndsInBacktick(ex.p1)

\* C2 (as amended): for a JSON object J whose text holds no fence marker,
\* fenced with the json tag after prose that holds no json-tagged marker, or
\* fenced untagged between prose that holds no fence marker (the prose before
\* it not ending in a backtick), both extractors return an object equal to J.
C2_RoundTripCovered ==
  (ex.pc \in {"analyzed", "tailored"} /\ C2_Covered) => (~ex.raised /\ ex.val = ex.j)

\* C2 (as stated): for every J, P1 and P2 the extraction of
\* P1 + fenced block containing J + P2 returns an object equal to J.
C2_RoundTripAnyProse ==
  (ex.pc \in {"analyzed", "tailored"} /\ ex.wrapped) => (~ex.raised /\ ex.val = ex.j)

C2_Witness ==
  /\ ex.pc = "tailored" /\ C2_Covered
  /\ ex.p1 # <<>> /\ ex.p2 # <<>> /\ ex.j # Obj(<<>>)
  /\ ~ex.raised /\ ex.val = ex.j

\* No part of the text parses as JSON (a value starts at a quote, a brace or a
\* bracket).
NoParsableJson(text) ==
  \A i \in 1..Len(text) :
    text[i] \in {QT, "{", "["} => \A j \in i..Len(text) : ~Loads(SubSeq(text, i, j)).ok

C3_IsFallback(val, text) ==
  /\ IsObj(val)
  /\ Has(val, K("raw_analysis")) /\ Get(val, K("raw_analysis")) = Str(text)
  /\ Has(val, K("required_skills")) /\ Get(val, K("required_skills")) = Arr(<<>>)
  /\ Has(val, K("keywords")) /\ Get(val, K("keywords")) = Arr(<<>>)

\* C3: when the oracle text contains no parsable JSON, analyze_job_description
\* does not raise and returns the fallback: the raw text verbatim, and
\* required_skills and keywords as empty sequences.
C3_FallbackOnNoJson ==
  (ex.pc = "analyzed" /\ NoParsableJson(ex.text)) => (~ex.raised /\ C3_IsFallback(ex.val, ex.text))

C3_Witness ==
  /\ ex.pc = "analyzed" /\ NoParsableJson(ex.text) /\ Contains(ex.text, Fence)
  /\ C3_IsFallback(ex.val, ex.text)

\* -------- the renderers

\* needles occur in hay in this order (not necessarily adjacent).
RECURSIVE Embeds(_, _)
Embeds(needles, hay) ==
  IF needles = <<>> THEN TRUE
  ELSE IF hay = <<>> THEN FALSE
  ELSE IF Head(hay) = Head(needles) THEN Embeds(Tail(needles), Tail(hay))
  ELSE Embeds(needles, Tail(hay))

\* The experience entries of a record.
ExperienceOf(r) == Get(r, K("experience")).v

\* The 'title at company' line of an entry.
TitleAtCompany(exp) ==
  Get(exp, K("title")).v \o <<SP, "at", SP>> \o Get(exp, K("company")).v

\* C6: for every ResumeRecord R, convert_json_to_text(R) returns a text whose
\* first line is R.name and among whose lines the 'title at company' lines of
\* R.experience occur, one per entry, in the order of R.experience.
C6_NameFirstEntriesInOrder ==
  (rn.pc = "text" /\ rn.r \in RnRecords) =>
    /\ rn.ok
    /\ Lines(rn.text)[1] = Get(rn.r, K("name")).v
    /\ Embeds([i \in 1..Len(ExperienceOf(rn.r)) |-> TitleAtCompany(ExperienceOf(rn.r)[i])],
              Lines(rn.text))

C6_Witness ==
  /\ rn.pc = "text" /\ rn.r \in RnRecords /\ rn.ok
  /\ Len(ExperienceOf(rn.r)) = 2
  /\ TitleAtCompany(ExperienceOf(rn.r)[1]) # TitleAtCompany(ExperienceOf(rn.r)[2])
  /\ Lines(rn.text)[1] = <<"Ann", SP, "Lee">>
  /\ Embeds(<<TitleAtCompany(ExperienceOf(rn.r)[1]), TitleAtCompany(ExperienceOf(rn.r)[2])>>,
            Lines(rn.text))

\* C7: for every ResumeRecord, with or without references and contact
\* location and with education as a single record or a sequence, the markdown
\* convert_json_to_markdown returns holds no placeholder token of the
\* fragment templates.
C7_NoPlaceholderLeft ==
  (rn.pc = "markdown" /\ rn.r \in RnRecords /\ rn.present = FragmentNames) =>
    (rn.ok /\ \A name \in PlaceholderNames : ~Contains(rn.text, PH(name)))

\* The company strings of a record's entries, in order.
CompanyOf(r, i) == GetOr(ExperienceOf(r)[i], K("company"), EmptyStr).v

PeriodOf(r, i) == GetOr(ExperienceOf(r)[i], K("period"), EmptyStr).v

\* A company string with a trailing parenthesized clause: trimmed, it ends in
\* ")" and an "(" comes before.
TrailingClause(c) ==
  /\ Strip(c) # <<>> /\ Strip(c)[Len(Strip(c))] = ")"
  /\ Find(c, <<"(">>) # 0 /\ Find(c, <<"(">>) < FindLast(c, <<")">>)

\* C8: convert_json_to_markdown splits a company string with a trailing
\* parenthesized clause at the first "(" and the last ")": company is the
\* trimmed text before the first "(", location the trimmed text between that
\* "(" and the last ")"; a string without parentheses is the company whole
\* and gives an empty location.
C8_SplitAtFirstOpenLastClose ==
  (rn.pc = "markdown" /\ rn.ok) =>
    \A i \in 1..Len(rn.splits) :
      /\ TrailingClause(CompanyOf(rn.r, i)) =>
           /\ rn.splits[i].company =
                Strip(SubSeq(CompanyOf(rn.r, i), 1, Find(CompanyOf(rn.r, i), <<"(">>) - 1))
           /\ rn.splits[i].location =
                Strip(SubSeq(CompanyOf(rn.r, i), Find(CompanyOf(rn.r, i), <<"(">>) + 1,
                             FindLast(CompanyOf(rn.r, i), <<")">>) - 1))
      /\ (\A k \in 1..Len(CompanyOf(rn.r, i)) : CompanyOf(rn.r, i)[k] \notin {"(", ")"}) =>
           (rn.splits[i].company = CompanyOf(rn.r, i) /\ rn.splits[i].location = <<>>)

\* The least position of a hyphen in p, 0 when there is none.
FirstHyphen(p) ==
  IF \E k \in 1..Len(p) : p[k] = "-"
  THEN CHOOSE k \in 1..Len(p) : p[k] = "-" /\ \A j \in 1..(k - 1) : p[j] # "-"
  ELSE 0

\* C9: convert_json_to_markdown splits a period string that holds "-" at its
\* first "-" into from, the trimmed text before it, and to, the trimmed text
\* after it; a period string with no "-" gives from equal to the whole string
\* and to empty.
C9_SplitAtFirstHyphen ==
  (rn.pc = "markdown" /\ rn.ok) =>
    \A i \in 1..Len(rn.splits) :
      IF FirstHyphen(PeriodOf(rn.r, i)) # 0
      THEN /\ rn.splits[i].from =
                Strip(SubSeq(PeriodOf(rn.r, i), 1, FirstHyphen(PeriodOf(rn.r, i)) - 1))
           /\ rn.splits[i].to =
                Strip(SubSeq(PeriodOf(rn.r, i), FirstHyphen(PeriodOf(rn.r, i)) + 1,
                             Len(PeriodOf(rn.r, i))))
      ELSE rn.splits[i].from = PeriodOf(rn.r, i) /\ rn.splits[i].to = <<>>

C9_Witness ==
  /\ rn.pc = "markdown" /\ rn.ok /\ Len(rn.splits) = 2
  /\ PeriodOf(rn.r, 1) = <<"2020", "-", "01", SP, "-", SP, "2021", "-", "01">>
  /\ rn.splits[1].from = <<"2020">>
  /\ rn.splits[1].to = <<"01", SP, "-", SP, "2021", "-", "01">>
  /\ PeriodOf(rn.r, 2) = <<"2022">>
  /\ rn.splits[2].from = <<"2022">> /\ rn.splits[2].to = <<>>
  /\ Contains(rn.text, <<"2020", SP, "to", SP, "01", SP, "-", SP, "2021", "-", "01", NL>>)

\* -------- generate_question_answers

\* a is r with the white space at both ends removed.
IsTrimOf(a, r) ==
  /\ a = <<>> \/ (Head(a) \notin Whitespace /\ a[Len(a)] \notin Whitespace)
  /\ \E i \in 1..(Len(r) - Len(a) + 1) :
       /\ SubSeq(r, i, i + Len(a) - 1) = a
       /\ \A k \in 1..Len(r) : (k < i \/ k >= i + Len(a)) => r[k] \in Whitespace

\* The prompt ends with this question and the closing instructions.
AsksFor(prompt, question) ==
  After(prompt, <<"APPLICATION QUESTION:", NL>>) = question \o <<NL, "answer_instructions">>

\* C1: when every oracle call succeeds, generate_question_answers returns as
\* many answers as there are questions, made one oracle call per question, in
\* order, each for the prompt built from that question, and answer i is the
\* trimmed response to call i.
C1_AnswersFollowQuestions ==
  qa.pc = "returned" =>
    /\ Len(qa.answers) = Len(qa.questions)
    /\ Len(qa.calls) = Len(qa.questions)
    /\ \A i \in 1..Len(qa.questions) :
         /\ AsksFor(qa.calls[i].prompt, qa.questions[i])
         /\ IsStr(qa.calls[i].response)
         /\ IsTrimOf(qa.answers[i], qa.calls[i].response.v)

C1_Witness ==
  /\ qa.pc = "returned"
  /\ qa.questions = <<Q2, Q1>>
  /\ qa.calls[1].response = Str(W(<<"B", "it", "is">>))
  /\ qa.calls[2].response = Str(<<SP, NL>> \o W(<<"Because", "A">>) \o <<NL>>)
  /\ qa.answers = <<W(<<"B", "it", "is">>), W(<<"Because", "A">>)>>

\* -------- the server

\* The oracle answered the tailoring prompt with a text the extraction cannot
\* parse.
Unparsable ==
  /\ req.pc # "idle"
  /\ IsStr(req.answer) /\ req.sent = Raise /\ ~TailorLoads(req.answer.v).ok

Identity(resume) ==
  [name |-> Get(resume, K("name")), contact |-> Get(resume, K("contact")),
   jobs |-> [i \in 1..Len(ExperienceOf(resume)) |->
               <<GetOr(ExperienceOf(resume)[i], K("company"), EmptyStr),
                 GetOr(ExperienceOf(resume)[i], K("period"), EmptyStr)>>]]

\* C5 (as stated): for every Tailor request that succeeds, whatever the
\* oracle returns, the tailored record's name, contact, company names and
\* periods equal those of the base template.
C5_IdentityOfTemplate ==
  req.pc = "done" => Identity(req.resume) = Identity(TemplateResume(req.template))

\* C5 (as amended): for every Tailor request that succeeds, the tailored
\* record's name, contact, company names and periods are those of the JSON
\* value in the oracle's response, whether or not they equal the base
\* template's.
C5_IdentityOfAnswer ==
  req.pc = "done" => (IsObj(req.sent) /\ Identity(req.resume) = Identity(req.sent))

C5_Witness ==
  /\ req.pc = "done" /\ req.template = Michael
  /\ Get(req.resume, K("name")) = S("Zed")
  /\ Identity(req.resume) = Identity(req.sent)
  /\ Identity(req.resume) # Identity(TemplateResume(req.template))

\* C10 (as stated): no file written by an earlier request is later
\* overwritten.
C10_NeverOverwritten ==
  [][\A path \in DOMAIN files :
       path \in DOMAIN files' /\ files'[path].id = files[path].id]_vars

\* C10 (as amended): output files are never removed, and a file is
\* overwritten only by a request with the same template name or by a write in
\* the same second as the write it replaces; a file written by an earlier
\* request stays as it is through every request with another template name
\* that writes in a later second.
C10_OverwrittenBySameNameOrSecond ==
  [][\A path \in DOMAIN files :
       /\ path \in DOMAIN files'
       /\ files'[path] # files[path] =>
            (files'[path].name = files[path].name \/ files'[path].at = files[path].at)]_vars

C10_Witness ==
  /\ req.pc = "done" /\ req.id = "r2" /\ req.template = Michael /\ now = 1
  /\ MarkdownPath(Stamp(0)) \in DOMAIN files
  /\ files[MarkdownPath(Stamp(0))].id = "r1"
  /\ files[MarkdownPath(Stamp(0))].name = <<"michael">>
  /\ files[req.pdf_path].id = "r2" /\ files[req.pdf_path].at = 1
  /\ files[JsonPath(Stamp(0))].id = "r1"
  /\ files[req.json_path].id = "r2"

\* -------- the server: failures

\* The files the request being served has written.
WrittenBy(request) == {path \in DOMAIN files : files[path].id = request.id}

\* The request being served names a template the store does not hold, and
\* tailor_resume has run.
TemplateAbsent ==
  /\ req.pc \notin {"idle", "tailor"}
  /\ req.template \notin TemplateFiles

\* C11: a Tailor request naming a template that the template store does not
\* hold fails with a surfaced error (status 500) and is aborted before any
\* oracle call is made and before any output file is written.
C11_AbsentTemplateAborts ==
  TemplateAbsent =>
    /\ req.pc = "failed" /\ req.status = 500 /\ req.error = "template"
    /\ req.oracle = <<>>
    /\ WrittenBy(req) = {}
    /\ req.response = <<>>

C11_Witness ==
  /\ TemplateAbsent /\ req.template = Ghost
  /\ req.pc = "failed" /\ req.oracle = <<>> /\ files = NoFiles

\* The oracle calls of the request being served, those of a running
\* generate_question_answers included.
OracleLog ==
  IF req.pc = "idle" THEN <<>>
  ELSE req.oracle \o (IF req.pc = "answering" THEN QuestionCalls(qa.calls) ELSE <<>>)

\* The request being served is aborted, or its call of
\* generate_question_answers has raised and the handler is about to abort it.
Aborting == req.pc = "failed" \/ (req.pc = "answering" /\ qa.pc = "raised")

\* C12: the oracle is never retried: within one Tailor request each prompt
\* (tailoring, cover letter, each question) goes to the oracle at most once,
\* and a call that raises is the last call of the request, which is aborted
\* with status 500.
C12_NoRetry ==
  /\ \A i, j \in 1..Len(OracleLog) :
       (OracleLog[i].prompt = OracleLog[j].prompt /\ OracleLog[i].k = OracleLog[j].k) => i = j
  /\ \A i \in 1..Len(OracleLog) :
       OracleLog[i].raised => (i = Len(OracleLog) /\ Aborting)
  /\ (req.pc = "failed" /\ req.error = "oracle") =>
       (req.status = 500 /\ OracleLog # <<>> /\ OracleLog[Len(OracleLog)].raised)

C12_Witness ==
  /\ req.pc = "failed" /\ req.error = "oracle" /\ req.questions = <<Q1, Q2>>
  /\ req.oracle = <<[prompt |-> "tailoring", k |-> 0, raised |-> FALSE],
                    [prompt |-> "cover", k |-> 0, raised |-> FALSE],
                    [prompt |-> "question", k |-> 1, raised |-> FALSE],
                    [prompt |-> "question", k |-> 2, raised |-> TRUE]>>

\* C16: when the PDF rendering step raises, the request is aborted with
\* status 500 and the markdown written before the rendering step is on disk:
\* the resume's markdown beside the PDF path and under its timestamp, or the
\* cover letter's markdown.
C16_MarkdownOutlivesRenderFailure ==
  /\ (req.pc = "failed" /\ req.error = "render") =>
       /\ req.status = 500 /\ req.response = <<>>
       /\ MarkdownBeside(PdfPath(TemplateName(req.template))) \in WrittenBy(req)
       /\ files[MarkdownBeside(PdfPath(TemplateName(req.template)))].content
            = ConvertJsonToMarkdown(req.resume, FragmentNames).text
       /\ \E path \in WrittenBy(req) :
            /\ path \in {MarkdownPath(Stamp(t)) : t \in 0..now}
            /\ files[path].content = ConvertJsonToMarkdown(req.resume, FragmentNames).text
  /\ (req.pc = "failed" /\ req.error = "render_cover") =>
       /\ req.status = 500 /\ req.response = <<>>
       /\ CoverMarkdownPath(TemplateName(req.template)) \in WrittenBy(req)
       /\ files[CoverMarkdownPath(TemplateName(req.template))].content
            \in {CoverLetterMarkdown(text) : text \in CoverAnswers}

C16_Witness ==
  /\ req.pc = "failed" /\ req.error = "render" /\ req.template = Michael
  /\ MarkdownBeside(PdfPath(TemplateName(Michael))) \in WrittenBy(req)
  /\ PdfPath(TemplateName(Michael)) \notin DOMAIN files

\* -------- the protected routes

\* The request carries a valid bearer token in the second t: a Bearer header
\* whose token is signed with the server's key and algorithm, has not
\* expired and names a user of users.json.
ValidBearer(header, t) ==
  /\ header.scheme = "Bearer"
  /\ header.credentials.form = "jwt"
  /\ header.credentials.key = SecretKey /\ header.credentials.alg = Algorithm
  /\ header.credentials.exp > t
  /\ header.credentials.sub \in Users

\* The dependencies have decided on a request that carries no valid bearer
\* token.
Unauthenticated ==
  /\ au.pc \notin {"idle", "arrived", "credentials"}
  /\ ~ValidBearer(au.header, au.at)

\* C13 (as stated): a request to a protected route that carries no valid
\* bearer token fails with status 401 and the handler's effects do not occur.
C13_Unauthenticated401 ==
  Unauthenticated => (au.pc = "rejected" /\ au.status = 401 /\ au.effects = <<>>)

\* C13 (as amended): a request to a protected route that carries no valid
\* bearer token is rejected and the handler's effects do not occur; the
\* status is 401 when a Bearer header is carried, and 401 or 403 when none is.
C13_UnauthenticatedRejected ==
  Unauthenticated =>
    /\ au.pc = "rejected" /\ au.effects = <<>> /\ au.body = <<>>
    /\ au.header.scheme = "Bearer" => au.status = 401
    /\ au.header.scheme # "Bearer" => au.status \in {401, 403}

C13_Witness ==
  /\ Unauthenticated /\ au.pc = "rejected" /\ au.status = 401
  /\ au.route = "tailor-resume"
  /\ au.header = [scheme |-> "Bearer", credentials |-> Jwt(SecretKey, Algorithm, MaxClock + 1, "eve")]

\* -------- convert_json_to_markdown: missing fragment files

\* convert_json_to_markdown has run on a ResumeRecord with one of the
\* fragment files missing.
FragmentMissing ==
  /\ rn.pc = "markdown"
  /\ rn.present # FragmentNames
  /\ rn.r \in RnRecords \cup RnFew \cup {RnSample}

C15_FenceStripped ==
  ex.pc = "covered" =>
    /\ IsStr(ex.j) => ex.val = Str(Strip(ex.j.v))
    /\ ~Contains(ex.text, Fence) => ex.val = Str(ex.text)

\* -------- the record is read, never written

\* The steps of a request in which a consumer of the tailored record runs.
Consuming == {"text", "pdf", "cover", "answers", "answering"}

C18_PromptBuildingNeverFails ==
  (qa.pc \in {"asking", "raised", "returned"} /\ IsObj(qa.resume)) =>
    /\ qa.ctx # Raise
    /\ CoverLetterPrompt(qa.resume, qa.job_description) # Raise
    /\ \A f \in {"name", "summary", "skills_text", "experience_text"} :
         ~Has(qa.resume, K(IF f = "skills_text" THEN "skills"
                           ELSE IF f = "experience_text" THEN "experience" ELSE f))
           => Get(qa.ctx, K(f)) = EmptyStr

\* -------- the batch of questions

\* C19: question answering aborts the whole batch on the first oracle error:
\* when the call for question k raised, that call is the last one made (k is
\* the number of calls, no question after k is put to the oracle), the
\* function is left by the exception and gives back no answer, the ones
\* collected for the questions before k included.
C19_BatchAborted ==
  \A k \in 1..Len(qa.calls) :
    qa.calls[k].response = Raise =>
      /\ k = Len(qa.calls)
      /\ qa.pc = "raised"
      /\ qa.answers = <<>>

C19_Witness ==
  /\ qa.pc = "raised"
  /\ Len(qa.calls) = Len(qa.questions)
  /\ Len(qa.calls) > 1
  /\ \A k \in 1..(Len(qa.calls) - 1) : qa.calls[k].response # Raise
  /\ qa.calls[Len(qa.calls)].response = Raise

\* -------- two requests, one template

\* The request being served names the template of a request answered before
\* it, whose client holds the URLs of that answer.
SameTemplateAsEarlier ==
  /\ req.pc \notin {"idle", "tailor"}
  /\ req.earlier.id \notin {"", req.id}
  /\ req.earlier.name = TemplateName(req.template)

\* C20: two Tailor requests that name the same template write to the same
\* output file names: once the later one has rendered its resume (its cover
\* letter), the file the URL returned to the earlier one points to is that
\* very file and holds what was generated for the later request.
C20_SameTemplateSameFiles ==
  SameTemplateAsEarlier =>
    /\ req.pdf_path # <<>> =>
         /\ req.pdf_path = req.earlier.resume
         /\ files[req.earlier.resume].id = req.id
    /\ (req.cover_letter_path # <<>> /\ req.earlier.cover_letter # <<>>) =>
         /\ req.cover_letter_path = req.earlier.cover_letter
         /\ files[req.earlier.cover_letter].id = req.id

C20_Witness ==
  /\ SameTemplateAsEarlier
  /\ req.pc = "done"
  /\ files[req.earlier.resume].id = req.id
  /\ req.earlier.cover_letter # <<>>
  /\ files[req.earlier.cover_letter].id = req.id
  /\ PathName(req.earlier.resume) = PathName(req.pdf_path)

\* -------- convert_json_to_text: the order of the lines

\* The lines the fields of an entry give, in the order title and company,
\* period, skills, summary, highlights; a field the entry lacks gives none.
EntryOrder(exp) ==
  <<TitleAtCompany(exp)>>
  \o (IF Has(exp, K("period")) THEN <<Get(exp, K("period")).v>> ELSE <<>>)
  \o (IF Has(exp, K("skills"))
      THEN <<<<"Skills", ":", SP>>
               \o (IF IsArr(Get(exp, K("skills")))
                   THEN Join([i \in 1..Len(Get(exp, K("skills")).v) |->
                                Get(exp, K("skills")).v[i].v], <<",", SP>>)
                   ELSE Get(exp, K("skills")).v)>>
      ELSE <<>>)
  \o (IF Has(exp, K("summary")) THEN <<Get(exp, K("summary")).v>> ELSE <<>>)
  \o (IF Has(exp, K("highlights"))
      THEN [i \in 1..Len(Get(exp, K("highlights")).v) |->
              <<"bullet", SP>> \o Get(exp, K("highlights")).v[i].v]
      ELSE <<>>)

\* The record has references to print.
HasReferences(r) == Has(r, K("references")) /\ Get(r, K("references")).v # <<>>

ReferencesHeading == <<"PROFESSIONAL", SP, "REFERENCES">>

\* The headings and lines of a record in the order stated: name, contact
\* lines, separator, SUMMARY, the references heading when there are
\* references, EXPERIENCE with the lines of each entry, SKILLS, EDUCATION.
TextOrder(r) ==
  <<Get(r, K("name")).v>>
  \o [i \in 1..Len(Get(r, K("contact")).v) |->
        Get(r, K("contact")).v[i].k \o <<":", SP>> \o Get(r, K("contact")).v[i].val.v]
  \o <<<<"-", "-", "-", "-">>, <<"SUMMARY">>, Get(r, K("summary")).v>>
  \o (IF HasReferences(r) THEN <<ReferencesHeading>> ELSE <<>>)
  \o <<<<"EXPERIENCE">>>>
  \o Flatten([i \in 1..Len(ExperienceOf(r)) |-> EntryOrder(ExperienceOf(r)[i])])
  \o <<<<"SKILLS">>, <<"EDUCATION">>>>

\* C21: for every ResumeRecord the lines of convert_json_to_text's output
\* come in the order name, contact lines, separator, SUMMARY, references
\* block, EXPERIENCE, SKILLS, EDUCATION, with the references block there only
\* when references are non-empty, and inside each experience entry in the
\* order title and company, period, skills line, summary, bullet highlights.
C21_LinesInOrder ==
  (rn.pc = "text" /\ rn.r \in RnRecords) =>
    /\ rn.ok
    /\ Lines(rn.text)[1] = Get(rn.r, K("name")).v
    /\ Embeds(TextOrder(rn.r), Lines(rn.text))
    /\ HasReferences(rn.r) <=> (\E i \in 1..Len(Lines(rn.text)) :
                                  Lines(rn.text)[i] = ReferencesHeading)

C21_Witness ==
  /\ rn.pc = "text" /\ rn.r \in RnRecords /\ rn.ok
  /\ HasReferences(rn.r)
  /\ Len(ExperienceOf(rn.r)) = 2
  /\ Len(EntryOrder(ExperienceOf(rn.r)[1])) > 5
  /\ Embeds(TextOrder(rn.r), Lines(rn.text))

\* -------- the names of a generation's artifacts

\* A path without its extension (its last symbol).
Stem(path) == SubSeq(path, 1, Len(path) - 1)

\* The artifacts of a request that succeeded: structured JSON, plain text,
\* rendered PDF and the markdown source beside it.
Artifacts(request) ==
  {request.json_path, request.text_path, request.pdf_path, MarkdownBeside(request.pdf_path)}

\* C22: after a successful Tailor generation the artifacts written for it
\* (markdown source, rendered PDF, structured JSON, plain text) all carry the
\* same base name and differ only in extension.
C22_SameBaseName ==
  req.pc = "done" =>
    /\ Artifacts(req) \subseteq DOMAIN files
    /\ \A p, q \in Artifacts(req) : Stem(p) = Stem(q)

\* -------- the extractor: which text is parsed

\* The positions of text where the marker stands.
MarkersAt(text, marker) ==
  {i \in 1..Len(text) :
     i + Len(marker) - 1 <= Len(text) /\ SubSeq(text, i, i + Len(marker) - 1) = marker}

\* The openings of closed blocks: the positions of `open` that have a fence
\* marker somewhere after them.
ClosedBlocks(text, open) ==
  {i \in MarkersAt(text, open) : \E j \in MarkersAt(text, Fence) : j >= i + Len(open)}

\* The interior of the first closed block that `open` opens: from behind the
\* opening to the next fence marker.
FirstInterior(text, open) ==
  LET i == CHOOSE a \in ClosedBlocks(text, open) :
             \A b \in ClosedBlocks(text, open) : a <= b
      j == CHOOSE a \in MarkersAt(text, Fence) :
             /\ a >= i + Len(open)
             /\ \A b \in MarkersAt(text, Fence) : b >= i + Len(open) => a <= b
  IN SubSeq(text, i + Len(open), j - 1)

\* The text the precedence selects: the json-tagged block, else the first
\* block of any kind, else everything.
Selected(text) ==
  IF ClosedBlocks(text, FenceJson) # {} THEN FirstInterior(text, FenceJson)
  ELSE IF ClosedBlocks(text, Fence) # {} THEN FirstInterior(text, Fence)
  ELSE text

\* C23: both copies of the extractor (job analysis, resume tailoring) parse
\* the trimmed interior of the first block opened by a json-tagged fence that
\* has a closing fence after it when there is one, otherwise the trimmed
\* interior of the first closed block of any kind, otherwise the entire text;
\* the whole text is never taken when a closed block is present, and the two
\* copies take the same text from every input.
C23_ExtractionPrecedence ==
  ex.pc \in {"analyzed", "tailored"} =>
    /\ ex.json_str = (IF ClosedBlocks(ex.text, Fence) # {}
                      THEN Strip(Selected(ex.text)) ELSE ex.text)
    /\ ex.json_str = AnalyzeJsonStr(ex.text)
    /\ ClosedBlocks(ex.text, Fence) # {} => Len(ex.json_str) < Len(ex.text)

C23_Witness ==
  /\ ex.pc = "tailored"
  /\ ClosedBlocks(ex.text, FenceJson) = {}
  /\ ClosedBlocks(ex.text, Fence) # {}
  /\ ex.json_str = Strip(FirstInterior(ex.text, Fence))
  /\ ex.json_str # <<>>

\* -------- sign-in

\* An entry of the file read at sign-in has the submitted username and
\* password.
CredentialsMatch ==
  \E i \in 1..Len(au.seen) :
    au.seen[i].username = au.username /\ au.seen[i].password = au.password

\* C24: sign-in issues a bearer token if and only if the submitted username
\* and password both equal those of one entry of the credential file;
\* otherwise it fails with 401 and no token is issued; the subject of the
\* issued token is that entry's username.
C24_TokenIffCredentials ==
  au.pc \in {"signed", "refused", "accepted", "rejected"} =>
    /\ au.token # NoToken <=> CredentialsMatch
    /\ ~CredentialsMatch => (au.pc = "refused" /\ au.status = 401)
    /\ CredentialsMatch =>
         /\ au.token.form = "jwt" /\ au.token.sub = au.username
         /\ au.token.key = SecretKey /\ au.token.alg = Algorithm

C24_Witness ==
  /\ au.pc = "signed" /\ au.username = "bob" /\ au.password = "pw2"
  /\ au.token.sub = "bob" /\ Len(au.seen) = 2

\* -------- a token outlives its user

\* get_current_user has decided on a token of the server's key and algorithm
\* that has not expired.
SignedTokenSent ==
  /\ au.pc \in {"accepted", "rejected"}
  /\ au.sent.form = "jwt" /\ au.sent.key = SecretKey /\ au.sent.alg = Algorithm
  /\ au.sent.exp > au.at

\* C25: a bearer token is accepted on a protected route only while its
\* subject names a user present in the credential file at the time of the
\* request: a correctly signed, unexpired token whose user has since been
\* removed from the file, or that has no subject, is rejected with 401.
C25_AcceptedWhileListed ==
  SignedTokenSent =>
    /\ au.pc = "accepted" => (au.sent.sub # "" /\ au.sent.sub \in Usernames(au.users))
    /\ (au.sent.sub = "" \/ au.sent.sub \notin Usernames(au.users)) =>
         (au.pc = "rejected" /\ au.status = 401)

C25_Witness ==
  /\ SignedTokenSent /\ au.pc = "rejected" /\ au.status = 401
  /\ au.sent = au.token /\ au.sent.sub = "ann"
  /\ "ann" \in Usernames(au.seen) /\ "ann" \notin Usernames(au.users)

\* -------- the response of a request that succeeded

\* The response has the member.
Responds(member) == \E i \in 1..Len(req.response) : req.response[i].k = K(member)

C27_CoverLetterNamedByTemplate ==
  (req.pc = "done" /\ req.cover_letter_path # <<>>) =>
    \E name \in {TemplateName(req.template)} :
      /\ req.cover_letter_path = OutputDir \o name \o <<"_cover_letter", ".pdf">>
      /\ req.cover_letter_path \in DOMAIN files
      /\ OutputDir \o name \o <<"_cover_letter", ".md">> \in DOMAIN files
      /\ CoverLetterTemplateName(PathName(req.cover_letter_path)) = name


\* A step after the tailoring step has failed: the cover letter's or a
\* question's oracle call raised, or a PDF could not be rendered.
LaterStepFailed ==
  /\ req.pc = "failed" /\ req.json_path # <<>>
  /\ req.error \in {"oracle", "render", "render_cover"}

\* C28: a Tailor request is not atomic with respect to the output directory:
\* when a later step fails, the request is answered with an error and no
\* artifact URL, and every file the earlier steps of the request wrote is
\* still on disk: the tailored JSON and the text, the markdown, and the
\* resume's PDF and the cover letter's once they were rendered.
C28_FailureKeepsArtifacts ==
  LaterStepFailed =>
    /\ req.status = 500 /\ req.response = <<>>
    /\ req.json_path \in WrittenBy(req)
    /\ req.text_path \in WrittenBy(req)
    /\ \E path \in WrittenBy(req) : path \in {MarkdownPath(Stamp(t)) : t \in 0..now}
    /\ MarkdownBeside(PdfPath(TemplateName(req.template))) \in WrittenBy(req)
    /\ req.error # "render" =>
         /\ req.pdf_path = PdfPath(TemplateName(req.template))
         /\ req.pdf_path \in WrittenBy(req)
    /\ req.cover_letter_path # <<>> => req.cover_letter_path \in WrittenBy(req)

C28_Witness ==
  /\ LaterStepFailed /\ req.error = "oracle" /\ req.response = <<>>
  /\ req.oracle[Len(req.oracle)] = [prompt |-> "question", k |-> 1, raised |-> TRUE]
  /\ {req.json_path, req.text_path, req.pdf_path, req.cover_letter_path} \subseteq DOMAIN files


\* C29: when the tailoring oracle text cannot be parsed as JSON,
\* tailor_resume writes the text verbatim to a raw-output text file and no
\* tailored JSON file, and no later step runs for the request: the raw file
\* is the only file the request wrote, the tailoring call is its only oracle
\* call, and it has no text, PDF, cover letter or answer.
C29_RawOnlyWhenUnparsable ==
  Unparsable =>
    /\ req.raw_path \in {RawPath(Stamp(t)) : t \in 0..now}
    /\ WrittenBy(req) = {req.raw_path}
    /\ files[req.raw_path].content = req.answer.v
    /\ \A t \in 0..now : JsonPath(Stamp(t)) \notin WrittenBy(req)
    /\ OracleLog = <<[prompt |-> "tailoring", k |-> 0, raised |-> FALSE]>>
    /\ req.text_path = <<>> /\ req.pdf_path = <<>> /\ req.cover_letter_path = <<>>
    /\ req.answers = <<>> /\ qa = QaIdle

C29_Witness ==
  /\ Unparsable /\ WrittenBy(req) = {req.raw_path}
  /\ req.oracle = <<[prompt |-> "tailoring", k |-> 0, raised |-> FALSE]>>
  /\ \E path \in DOMAIN files : files[path].id # req.id


\* -------- the download routes

\* C30: the download routes for resumes and cover letters ask for no bearer
\* token: whatever its Authorization header, a request naming a file that is
\* in the output directory receives that file and a request naming a file
\* that is not receives 404, so a file written for a signed-in user is
\* served to a request without a header that names it.
C30_DownloadsUnguarded ==
  au.pc = "served" =>
    IF OutputDir \o au.filename \in DOMAIN files
    THEN /\ au.response.status = 200
         /\ au.response.content = files[OutputDir \o au.filename].content
    ELSE au.response.status = 404 /\ au.response.content = Raise

C30_Witness ==
  /\ au.pc = "served" /\ au.route = "cover_letter" /\ au.authorization = NoHeader
  /\ au.filename = PathName(CoverPdfPath(TemplateName(Michael)))
  /\ OutputDir \o au.filename \in DOMAIN files
  /\ files[OutputDir \o au.filename].id = "r1"
  /\ au.response.status = 200
  /\ au.response.content = files[OutputDir \o au.filename].content

====
